---- MODULE Spec2Model ----
(***************************************************************************)
(* Model of the portfolio site's two data-carrying features:               *)
(*   - the Filament Finder page (public/js/filament.js): the fetch of the  *)
(*     catalog, the five filter controls, applyFilters and renderResults;  *)
(*   - the append endpoint POST /api/filaments (server.js);                *)
(* and of the other scripts of the site, each under a specification of its *)
(* own: the add-filament page, the handleErrors wrapper, Hangman, the      *)
(* header (navigation toggle and contact modal) and the education hover.   *)
(* JavaScript texts are sequences of one-character strings so that         *)
(* parseInt, Number and trim are computed character by character.          *)
(***************************************************************************)
EXTENDS Integers, Sequences, FiniteSets, TLC

VARIABLES
    fetchState,        \* the promise of fetch("/data/filaments.json"): pending, loaded, failed
    materials,         \* let materials = []
    filaments,         \* let filaments = []
    materialSelect,    \* #filter-material: [options, value]
    brandSelect,       \* #filter-brand: [options, value]
    colorSelect,       \* #filter-color: its value (the options are static markup)
    nozzleInput,       \* #filter-nozzle-temp: its value, a text
    bedInput,          \* #filter-bed-temp: its value, a text
    resultsContainer,  \* #filament-results-list: the filaments rendered as cards, in order
    emptyMessage,      \* #filament-results-empty: [text, display]
    materialInfoBox,   \* #filament-material-info: what the panel shows
    disk,              \* public/data/filaments.json as persisted
    responses,         \* the HTTP responses of POST /api/filaments, in the order sent
    fsCalls,           \* the fs calls the handlers have made: [read, write]
    addFetchState,     \* add page: the promise of fetch("/data/filaments.json")
    addMaterials,      \* add page: let materials = []
    addForm,           \* add page: the values of the inputs of #filament-add-form
    previewContainer,  \* add page: #filament-add-preview, as the data of the card in it
    savePending,       \* add page: the fetch("/api/filaments") calls not yet settled
    alertText,         \* add page: the message of the last alert()
    location,          \* add page: window.location.href
    wrapperCalls,      \* handleErrors: the calls of a wrapped controller, what became of each
    difficultySelect,  \* hangman: #hangman-difficulty, its value
    secretWord,        \* hangman: let secretWord = ""
    revealed,          \* hangman: let revealed = []
    wrongGuesses,      \* hangman: let wrongGuesses = 0
    guessedLetters,    \* hangman: let guessedLetters = new Set(), in insertion order
    wordDisplay,       \* hangman: #hangman-word, its text
    wrongCountSpan,    \* hangman: #hangman-wrong-count, its text
    guessedLettersSpan,\* hangman: #hangman-guessed-letters, its text
    messageSpan,       \* hangman: #hangman-message, its text
    figurePre,         \* hangman: #hangman-figure, the index of the stage drawn
    keyboard,          \* hangman: #hangman-keyboard, the keys that are disabled
    navToggle,         \* header: #nav-toggle, its aria-expanded and aria-label attributes
    activeElement,     \* header: the element that has the focus
    modalStyle,        \* header: style.display of #modal-overlay and #contact-modal, body overflow
    contactInputs,     \* header: the values of the four inputs of #contact-form
    contactErrors,     \* header: the three error texts and the fields marked has-error
    href,              \* header: window.location.href of the page that shows the modal
    pointer,           \* education hover: the element the mouse pointer is over
    hideTimeout,       \* education hover: let hideTimeout, the id of the last timer set
    timers,            \* education hover: the ids of the timers set and not yet run or cleared
    hoverImg,          \* education hover: the src of the img in #edu-hover-image
    hoverBox           \* education hover: #edu-hover-image: is-visible, style.left, style.top

finderVars == <<fetchState, materials, filaments, materialSelect, brandSelect,
                colorSelect, nozzleInput, bedInput, resultsContainer,
                emptyMessage, materialInfoBox>>
serverVars == <<disk, responses, fsCalls>>
addVars == <<addFetchState, addMaterials, addForm, previewContainer, savePending,
             alertText, location>>
hangmanVars == <<difficultySelect, secretWord, revealed, wrongGuesses, guessedLetters,
                 wordDisplay, wrongCountSpan, guessedLettersSpan, messageSpan,
                 figurePre, keyboard>>
headerVars == <<navToggle, activeElement, modalStyle, contactInputs, contactErrors, href>>
hoverVars == <<pointer, hideTimeout, timers, hoverImg, hoverBox>>
vars == <<finderVars, serverVars, addVars, wrapperCalls, hangmanVars, headerVars,
          hoverVars>>

\* What an event of one part of the site leaves alone.
notFinderVars == <<serverVars, addVars, wrapperCalls, hangmanVars, headerVars, hoverVars>>
notServerVars == <<finderVars, addVars, wrapperCalls, hangmanVars, headerVars, hoverVars>>
notAddVars == <<finderVars, serverVars, wrapperCalls, hangmanVars, headerVars, hoverVars>>
notWrapperVars == <<finderVars, serverVars, addVars, hangmanVars, headerVars, hoverVars>>
notHangmanVars == <<finderVars, serverVars, addVars, wrapperCalls, headerVars, hoverVars>>
notHeaderVars == <<finderVars, serverVars, addVars, wrapperCalls, hangmanVars, hoverVars>>
notHoverVars == <<finderVars, serverVars, addVars, wrapperCalls, hangmanVars, headerVars>>

(***************************************************************************)
(* Bounds of the model.                                                    *)
(***************************************************************************)
\* Longest filaments collection the fetched catalog carries.
MaxFilaments == 2
\* Number of POST /api/filaments requests in one behaviour.
MaxRequests == 3

(***************************************************************************)
(* JavaScript values and conversions.                                      *)
(***************************************************************************)
\* null, where a field holds a text otherwise.
Null == "<null>"

Digits == {"0", "1", "2", "3", "4", "5", "6", "7", "8", "9"}

DigitVal(c) ==
    CASE c = "0" -> 0 [] c = "1" -> 1 [] c = "2" -> 2 [] c = "3" -> 3
      [] c = "4" -> 4 [] c = "5" -> 5 [] c = "6" -> 6 [] c = "7" -> 7
      [] c = "8" -> 8 [] c = "9" -> 9

IsWhiteSpace(c) == c = " "

\* The result of a numeric conversion: NaN or a number.
NaN == [nan |-> TRUE]
Finite(n) == [nan |-> FALSE, n |-> n]

\* Number.isNaN
NumberIsNaN(v) == v.nan

RECURSIVE SkipWhiteSpace(_)
SkipWhiteSpace(s) ==
    IF s # <<>> /\ IsWhiteSpace(Head(s)) THEN SkipWhiteSpace(Tail(s)) ELSE s

RECURSIVE LeadingDigits(_)
LeadingDigits(s) ==
    IF s # <<>> /\ Head(s) \in Digits
    THEN <<Head(s)>> \o LeadingDigits(Tail(s))
    ELSE <<>>

RECURSIVE DigitsToInt(_, _)
DigitsToInt(s, acc) ==
    IF s = <<>> THEN acc ELSE DigitsToInt(Tail(s), acc * 10 + DigitVal(Head(s)))

\* A conversion that gives 0 where parseInt gives NaN, as Number("") does.
parseIntOrZero(text) ==
    LET s == SkipWhiteSpace(text)
        signed == s # <<>> /\ Head(s) \in {"-", "+"}
        body == IF signed THEN Tail(s) ELSE s
        ds == LeadingDigits(body)
        mag == DigitsToInt(ds, 0)
    IN  Finite(IF signed /\ Head(s) = "-" THEN 0 - mag ELSE mag)

\* parseInt(text, 10): leading white space is skipped, then an optional sign,
\* then the longest run of decimal digits; NaN when that run is empty.
parseInt(text) ==
    LET s == SkipWhiteSpace(text)
        signed == s # <<>> /\ Head(s) \in {"-", "+"}
        body == IF signed THEN Tail(s) ELSE s
        ds == LeadingDigits(body)
        mag == DigitsToInt(ds, 0)
    IN  IF ds = <<>> THEN NaN
        ELSE Finite(IF signed /\ Head(s) = "-" THEN 0 - mag ELSE mag)

(***************************************************************************)
(* The catalog the Filament Finder page fetches.                           *)
(***************************************************************************)
PLA == [name |-> "PLA", nozzle_temp_min |-> 190, nozzle_temp_max |-> 220,
        bed_temp_min |-> 50, bed_temp_max |-> 60]
PETG == [name |-> "PETG", nozzle_temp_min |-> 220, nozzle_temp_max |-> 250,
         bed_temp_min |-> 70, bed_temp_max |-> 90]

SampleMaterials == {<<PLA>>, <<PLA, PETG>>}

SampleFilaments ==
    { [id |-> 1, brand |-> "Acme", product_name |-> "Basic", material |-> "PLA",
       color |-> "red", nozzle_temp_min |-> 200, nozzle_temp_max |-> 220,
       bed_temp_min |-> 50, bed_temp_max |-> 60],
      [id |-> 2, brand |-> "Bolt", product_name |-> "Tough", material |-> "PETG",
       color |-> Null, nozzle_temp_min |-> 220, nozzle_temp_max |-> 250,
       bed_temp_min |-> 60, bed_temp_max |-> 80],
      [id |-> 3, brand |-> "Acme", product_name |-> "Clear", material |-> "PETG",
       color |-> "blue", nozzle_temp_min |-> 190, nozzle_temp_max |-> 210,
       bed_temp_min |-> 50, bed_temp_max |-> 60] }

\* The filaments collections: sequences of distinct sample filaments.
FilamentLists ==
    UNION { { s \in [1..n -> SampleFilaments] :
                \A i, j \in 1..n : i # j => s[i] # s[j] } : n \in 0..MaxFilaments }

Catalogs == [materials : SampleMaterials, filaments : FilamentLists]

\* The options of #filter-color in the page's markup.
ColorOptions == {"", "red", "blue"}

\* The texts a user leaves in a temperature input.
NozzleTexts ==
    { <<>>, <<"1", "9", "9">>, <<"2", "0", "0">>, <<"2", "2", "0">>,
      <<"2", "2", "1">>, <<"3", "0", "0">>, <<"a", "b", "c">>,
      <<"2", "0", "0", "a">> }
BedTexts ==
    { <<>>, <<"5", "0">>, <<"6", "0">>, <<"6", "1">>, <<"x">>, <<" ", "6", "x">> }

(***************************************************************************)
(* Filter control population.                                              *)
(***************************************************************************)
RECURSIVE MapNames(_)
MapNames(ms) == IF ms = <<>> THEN <<>> ELSE <<Head(ms).name>> \o MapNames(Tail(ms))

\* A select whose options were rebuilt shows its first option.
populateMaterialOptions(materialsList) ==
    [options |-> <<"">> \o MapNames(materialsList), value |-> ""]

\* The order Array.prototype.sort gives the brand names of the samples.
BrandRank(b) == CASE b = "Acme" -> 1 [] b = "Bolt" -> 2

RECURSIVE SortBrands(_)
SortBrands(S) ==
    IF S = {} THEN <<>>
    ELSE LET least == CHOOSE b \in S : \A c \in S : BrandRank(b) <= BrandRank(c)
         IN  <<least>> \o SortBrands(S \ {least})

populateBrandOptions(filamentsList) ==
    LET uniqueBrands == { filamentsList[i].brand : i \in 1..Len(filamentsList) }
    IN  [options |-> <<"">> \o SortBrands(uniqueBrands), value |-> ""]

SelectOptions(select) == { select.options[i] : i \in 1..Len(select.options) }

(***************************************************************************)
(* Material info panel.                                                    *)
(***************************************************************************)
\* A lookup that takes the first material whatever the name asked for.
FindMaterialFirst(ms, selectedName) ==
    IF ms = <<>> THEN Null ELSE ms[1].name

\* materials.find((m) => m.name === selectedName)
FindMaterial(ms, selectedName) ==
    LET hits == { i \in 1..Len(ms) : ms[i].name = selectedName }
    IN  IF hits = {} THEN Null
        ELSE ms[CHOOSE i \in hits : \A j \in hits : i <= j].name

\* What updateMaterialInfo writes into the panel: the prompt, the not-found
\* text, or the summary of the material found.
updateMaterialInfo(ms, selectedName) ==
    IF selectedName = "" THEN [shows |-> "prompt", material |-> Null]
    ELSE IF FindMaterial(ms, selectedName) = Null
         THEN [shows |-> "notfound", material |-> Null]
         ELSE [shows |-> "summary", material |-> FindMaterial(ms, selectedName)]

(***************************************************************************)
(* Filtering and result rendering.                                         *)
(***************************************************************************)
NoMatchText == "No filaments match the current filters yet."
LoadErrorText == "Could not load filament data. Please try again later."

\* A range test that leaves out both ends.
InRangeExclusive(lo, t, hi) == lo < t /\ t < hi

\* f.min <= value && value <= f.max
InRange(lo, t, hi) == lo <= t /\ t <= hi

\* A text test that compares nothing when the filament has the field set.
MatchesTextLoose(fieldValue, selected) ==
    selected = "" \/ fieldValue = selected \/ fieldValue # Null

\* !value || f.field === value
MatchesText(fieldValue, selected) == selected = "" \/ fieldValue = selected

\* The callback of filaments.filter in applyFilters.
Matches(f, materialValue, brandValue, colorValue, nozzleValue, bedValue) ==
    LET matchesMaterial == MatchesText(f.material, materialValue)
        matchesBrand == MatchesText(f.brand, brandValue)
        matchesColor == MatchesText(f.color, colorValue)
        matchesNozzle ==
            NumberIsNaN(nozzleValue)
            \/ InRange(f.nozzle_temp_min, nozzleValue.n, f.nozzle_temp_max)
        matchesBed ==
            NumberIsNaN(bedValue)
            \/ InRange(f.bed_temp_min, bedValue.n, f.bed_temp_max)
    IN  matchesMaterial /\ matchesBrand /\ matchesColor /\ matchesNozzle /\ matchesBed

\* const filtered = filaments.filter(...) for the given control values.
Filtered(list, materialValue, brandValue, colorValue, nozzleText, bedText) ==
    LET nozzleValue == parseInt(nozzleText)
        bedValue == parseInt(bedText)
    IN  SelectSeq(list, LAMBDA f :
            Matches(f, materialValue, brandValue, colorValue, nozzleValue, bedValue))

\* renderResults: the cards replace the list; the empty-state text is shown
\* for an empty list and hidden otherwise.
renderResults(list) ==
    /\ resultsContainer' = list
    /\ emptyMessage' = IF list = <<>>
                       THEN [text |-> NoMatchText, display |-> "block"]
                       ELSE [text |-> emptyMessage.text, display |-> "none"]

\* applyFilters, reading the controls as the event left them.
applyFilters ==
    /\ materialInfoBox' = updateMaterialInfo(materials, materialSelect'.value)
    /\ renderResults(Filtered(filaments, materialSelect'.value, brandSelect'.value,
                              colorSelect', nozzleInput', bedInput'))
    /\ UNCHANGED <<fetchState, materials, filaments>>

(***************************************************************************)
(* Data loading.                                                           *)
(***************************************************************************)
\* The second then-handler of the fetch: the data arrived and parsed.
FetchLoaded ==
    /\ fetchState = "pending"
    /\ \E data \in Catalogs :
        /\ materials' = data.materials
        /\ filaments' = data.filaments
        /\ materialSelect' = populateMaterialOptions(data.materials)
        /\ brandSelect' = populateBrandOptions(data.filaments)
        /\ materialInfoBox' = updateMaterialInfo(data.materials, "")
        /\ renderResults(data.filaments)
    /\ fetchState' = "loaded"
    /\ UNCHANGED <<colorSelect, nozzleInput, bedInput>>
    /\ UNCHANGED notFinderVars

\* The catch-handler: the response was not ok, or the fetch or the parse threw.
FetchFailed ==
    /\ fetchState = "pending"
    /\ fetchState' = "failed"
    /\ emptyMessage' = [text |-> LoadErrorText, display |-> "block"]
    /\ UNCHANGED <<materials, filaments, materialSelect, brandSelect, colorSelect,
                   nozzleInput, bedInput, resultsContainer, materialInfoBox>>
    /\ UNCHANGED notFinderVars

(***************************************************************************)
(* Event wiring.                                                           *)
(***************************************************************************)
MaterialChange ==
    /\ \E v \in SelectOptions(materialSelect) \ {materialSelect.value} :
        materialSelect' = [materialSelect EXCEPT !.value = v]
    /\ UNCHANGED <<brandSelect, colorSelect, nozzleInput, bedInput>>
    /\ applyFilters
    /\ UNCHANGED notFinderVars

BrandChange ==
    /\ \E v \in SelectOptions(brandSelect) \ {brandSelect.value} :
        brandSelect' = [brandSelect EXCEPT !.value = v]
    /\ UNCHANGED <<materialSelect, colorSelect, nozzleInput, bedInput>>
    /\ applyFilters
    /\ UNCHANGED notFinderVars

ColorChange ==
    /\ \E v \in ColorOptions \ {colorSelect} : colorSelect' = v
    /\ UNCHANGED <<materialSelect, brandSelect, nozzleInput, bedInput>>
    /\ applyFilters
    /\ UNCHANGED notFinderVars

NozzleInputEvent ==
    /\ \E text \in NozzleTexts \ {nozzleInput} : nozzleInput' = text
    /\ UNCHANGED <<materialSelect, brandSelect, colorSelect, bedInput>>
    /\ applyFilters
    /\ UNCHANGED notFinderVars

BedInputEvent ==
    /\ \E text \in BedTexts \ {bedInput} : bedInput' = text
    /\ UNCHANGED <<materialSelect, brandSelect, colorSelect, nozzleInput>>
    /\ applyFilters
    /\ UNCHANGED notFinderVars

FormSubmit ==
    /\ UNCHANGED <<materialSelect, brandSelect, colorSelect, nozzleInput, bedInput>>
    /\ applyFilters
    /\ UNCHANGED notFinderVars

ResetClick ==
    /\ materialSelect' = [materialSelect EXCEPT !.value = ""]
    /\ brandSelect' = [brandSelect EXCEPT !.value = ""]
    /\ colorSelect' = ""
    /\ nozzleInput' = <<>>
    /\ bedInput' = <<>>
    /\ materialInfoBox' = updateMaterialInfo(materials, "")
    /\ renderResults(filaments)
    /\ UNCHANGED <<fetchState, materials, filaments>>
    /\ UNCHANGED notFinderVars

\* The paths of the two filament pages.
AddPath == "/filament/add"
FinderPath == "/filament"

\* The add page right after DOMContentLoaded: the fetch is under way, every
\* input is empty, the material select has no material to offer and nothing
\* is previewed.
AddInit ==
    /\ addFetchState = "pending"
    /\ addMaterials = <<>>
    /\ addForm = [brand |-> <<>>, product |-> <<>>,
                  material |-> [options |-> <<"">>, value |-> ""], color |-> "",
                  nozzleMin |-> <<>>, nozzleMax |-> <<>>, bedMin |-> <<>>,
                  bedMax |-> <<>>, special |-> <<>>, notes |-> <<>>]
    /\ previewContainer = <<>>
    /\ savePending = 0
    /\ alertText = ""
    /\ location = AddPath

\* No request has reached a wrapped route.
WrapperInit == wrapperCalls = <<>>

\* const maxWrongGuesses = 10
maxWrongGuesses == 10

\* The hangman page right after DOMContentLoaded: no word is chosen, and
\* buildKeyboard, drawFigure(0), updateWordDisplay and updateStatus have run.
\* The dash of the guessed letters stands for the page's en dash.
HangmanInit ==
    /\ difficultySelect = "easy"
    /\ secretWord = <<>>
    /\ revealed = <<>>
    /\ wrongGuesses = 0
    /\ guessedLetters = <<>>
    /\ wordDisplay = <<>>
    /\ wrongCountSpan = <<"0">>
    /\ guessedLettersSpan = <<"-">>
    /\ messageSpan = [kind |-> "markup"]
    /\ figurePre = 0
    /\ keyboard = {}

\* The page right after DOMContentLoaded: the fetch is under way, the
\* selects carry their "any" option only and nothing is rendered.
FinderInit ==
    /\ fetchState = "pending"
    /\ materials = <<>>
    /\ filaments = <<>>
    /\ materialSelect = [options |-> <<"">>, value |-> ""]
    /\ brandSelect = [options |-> <<"">>, value |-> ""]
    /\ colorSelect = ""
    /\ nozzleInput = <<>>
    /\ bedInput = <<>>
    /\ resultsContainer = <<>>
    /\ emptyMessage = [text |-> "", display |-> ""]
    /\ materialInfoBox = [shows |-> "markup", material |-> Null]

\* The server with an empty catalog and no request handled.
ServerIdle ==
    /\ disk = [materials |-> <<>>, filaments |-> <<>>]
    /\ responses = <<>>
    /\ fsCalls = [read |-> 0, write |-> 0]

\* The header of every page right after its scripts ran: the menu is closed
\* with attributes that agree, no inline style is set on the modal, the
\* inputs of the contact form are empty and no error is shown.
HeaderInit ==
    /\ navToggle = [ariaExpanded |-> "false", ariaLabel |-> "Open menu"]
    /\ activeElement = "body"
    /\ modalStyle = [overlay |-> "", modal |-> "", bodyOverflow |-> ""]
    /\ contactInputs = [name |-> <<>>, company |-> <<>>, contact |-> <<>>,
                        message |-> <<>>]
    /\ contactErrors = [errorContact |-> "", errorMessage |-> "", mailtoError |-> "",
                        hasError |-> {}]
    /\ href = [page |-> "/"]

\* The education section right after DOMContentLoaded: let hideTimeout is
\* undefined (0 here, no timer has that id), no timer is set, the image box
\* is hidden and the pointer is over none of the elements the script listens to.
HoverInit ==
    /\ pointer = "elsewhere"
    /\ hideTimeout = 0
    /\ timers = <<>>
    /\ hoverImg = ""
    /\ hoverBox = [visible |-> FALSE, left |-> 0, top |-> 0]

\* The pages as loaded and no request at a wrapped route.
PagesInit ==
    FinderInit /\ AddInit /\ WrapperInit /\ HangmanInit /\ HeaderInit /\ HoverInit

Init == PagesInit /\ ServerIdle

Next ==
    \/ FetchLoaded
    \/ FetchFailed
    \/ MaterialChange
    \/ BrandChange
    \/ ColorChange
    \/ NozzleInputEvent
    \/ BedInputEvent
    \/ FormSubmit
    \/ ResetClick

\* The Filament Finder page.
Spec == Init /\ [][Next]_vars

(***************************************************************************)
(* POST /api/filaments: JavaScript values of a request body.               *)
(***************************************************************************)
\* A body field is undefined (absent), null, a string or a number.
Undefined == [t |-> "undefined"]
JsNull == [t |-> "null"]
Str(s) == [t |-> "string", s |-> s]
Num(n) == [t |-> "number", n |-> n]

\* !!v
Truthy(v) ==
    CASE v.t = "undefined" -> FALSE
      [] v.t = "null" -> FALSE
      [] v.t = "string" -> v.s # <<>>
      [] v.t = "number" -> v.n # 0

\* v || d
OrElse(v, d) == IF Truthy(v) THEN v ELSE d

RECURSIVE DropTrailingWhiteSpace(_)
DropTrailingWhiteSpace(s) ==
    IF s # <<>> /\ IsWhiteSpace(s[Len(s)])
    THEN DropTrailingWhiteSpace(SubSeq(s, 1, Len(s) - 1))
    ELSE s

\* Number(text): the text is trimmed; the empty text is 0; an optionally
\* signed run of decimal digits is its value; any other text is NaN.
StringToNumber(text) ==
    LET s == DropTrailingWhiteSpace(SkipWhiteSpace(text))
        signed == s # <<>> /\ Head(s) \in {"-", "+"}
        body == IF signed THEN Tail(s) ELSE s
        mag == DigitsToInt(body, 0)
    IN  IF s = <<>> THEN Finite(0)
        ELSE IF body = <<>> \/ LeadingDigits(body) # body THEN NaN
        ELSE Finite(IF Head(s) = "-" THEN 0 - mag ELSE mag)

\* Number(v)
ToNumber(v) ==
    CASE v.t = "undefined" -> NaN
      [] v.t = "null" -> Finite(0)
      [] v.t = "string" -> StringToNumber(v.s)
      [] v.t = "number" -> Finite(v.n)

(***************************************************************************)
(* The request bodies sent to the endpoint.                                *)
(***************************************************************************)
tempFields == <<"nozzle_temp_min", "nozzle_temp_max", "bed_temp_min", "bed_temp_max">>
requiredFields == <<"brand", "product_name", "material">>

\* The body of the spec's end-to-end scenario 2, the optional fields omitted.
BaseBody ==
    [brand |-> Str(<<"X">>), product_name |-> Str(<<"Y">>),
     material |-> Str(<<"P", "L", "A">>), color |-> Undefined,
     nozzle_temp_min |-> Num(200), nozzle_temp_max |-> Num(220),
     bed_temp_min |-> Num(50), bed_temp_max |-> Num(60),
     special_type |-> Undefined, notes |-> Undefined]

\* What a client may send in place of a required string.
BadRequired == {Undefined, Str(<<>>), Str(<<" ">>)}
\* What a client may send in place of a temperature.
OddTemps == {Undefined, JsNull, Str(<<"a", "b", "c">>)}

\* req.body || {}: a request without a body has every field undefined.
EmptyBody == [f \in DOMAIN BaseBody |-> Undefined]

Bodies ==
    {BaseBody, EmptyBody}
    \cup { [BaseBody EXCEPT ![requiredFields[i]] = v] : i \in 1..3, v \in BadRequired }
    \cup { [BaseBody EXCEPT ![tempFields[i]] = v] : i \in 1..4, v \in OddTemps }
    \cup { [BaseBody EXCEPT !.nozzle_temp_min = v] :
             v \in {Str(<<>>), Str(<<" ", "2", "1", "0">>), Str(<<"2", "1", "0", "C">>)} }
    \cup { [BaseBody EXCEPT !.color = Str(<<"r", "e", "d">>),
                            !.special_type = Str(<<"s", "i", "l", "k">>),
                            !.notes = Str(<<"n">>)],
           [BaseBody EXCEPT !.color = JsNull, !.notes = Str(<<>>)],
           [BaseBody EXCEPT !.brand = Str(<<>>), !.bed_temp_min = Str(<<"a", "b", "c">>)],
           [BaseBody EXCEPT !.nozzle_temp_max = Str(<<"a", "b", "c">>),
                            !.bed_temp_min = Undefined],
           [BaseBody EXCEPT !.product_name = Undefined, !.material = Str(<<>>)],
           [BaseBody EXCEPT !.color = Str(<<>>)],
           [BaseBody EXCEPT !.nozzle_temp_min = JsNull,
                            !.bed_temp_max = Str(<<"a", "b", "c">>)] }

(***************************************************************************)
(* The handler of POST /api/filaments.                                     *)
(***************************************************************************)
RequiredErrorText == "brand, product_name and material are required"
StorageErrorText == "Could not save filament. Please try again later."

\* `Field ${field} must be a number`
NumberErrorText(field) ==
    CASE field = "nozzle_temp_min" -> "Field nozzle_temp_min must be a number"
      [] field = "nozzle_temp_max" -> "Field nozzle_temp_max must be a number"
      [] field = "bed_temp_min" -> "Field bed_temp_min must be a number"
      [] field = "bed_temp_max" -> "Field bed_temp_max must be a number"

\* !body.brand || !body.product_name || !body.material
RequiredMissing(body) ==
    ~Truthy(body.brand) \/ ~Truthy(body.product_name) \/ ~Truthy(body.material)

\* The positions in tempFields whose value Number() turns into NaN.
BadTempPositions(body) ==
    { i \in 1..Len(tempFields) : NumberIsNaN(ToNumber(body[tempFields[i]])) }

\* A loop that reports the last field Number() turns into NaN.
LastBadTemp(body) ==
    tempFields[CHOOSE i \in BadTempPositions(body) :
                   \A j \in BadTempPositions(body) : j <= i]

\* The field the for-loop over tempFields returns on: the first one.
FirstBadTemp(body) ==
    tempFields[CHOOSE i \in BadTempPositions(body) :
                   \A j \in BadTempPositions(body) : i <= j]

\* The body passed both checks: the handler goes on to the try block.
Passed == [passed |-> TRUE]

\* A validation that runs the temperature loop before the required check.
ValidationErrorNumbersFirst(body) ==
    IF BadTempPositions(body) # {}
    THEN [status |-> 400, error |-> NumberErrorText(FirstBadTemp(body))]
    ELSE IF RequiredMissing(body)
         THEN [status |-> 400, error |-> RequiredErrorText]
         ELSE Passed

\* The 400 response of the validation, or Passed.
ValidationError(body) ==
    IF RequiredMissing(body)
    THEN [status |-> 400, error |-> RequiredErrorText]
    ELSE IF BadTempPositions(body) # {}
         THEN [status |-> 400, error |-> NumberErrorText(FirstBadTemp(body))]
         ELSE Passed

\* The file does not hold JSON: JSON.parse(raw) throws.
Torn == [torn |-> TRUE]

\* A handler that starts from an empty collection whatever the file holds.
DataFilamentsIgnored(data) == <<>>

\* data.filaments || []
DataFilaments(data) == IF "filaments" \in DOMAIN data THEN data.filaments ELSE <<>>

\* filaments.reduce((max, f) => Math.max(max, f.id || 0), 0)
RECURSIVE ReduceMaxId(_, _)
ReduceMaxId(list, max) ==
    IF list = <<>> THEN max
    ELSE ReduceMaxId(Tail(list), IF Head(list).id > max THEN Head(list).id ELSE max)

\* An id taken from the length of the collection.
newIdByLength(list) == Len(list) + 1

\* The largest id, not the one after it.
newIdIsMaxId(list) == ReduceMaxId(list, 0)

\* const newId = maxId + 1
newId(list) == ReduceMaxId(list, 0) + 1

\* The record the handler builds. Every value in it is a JSON value (a
\* string, a finite number or null), which JSON.stringify and JSON.parse
\* give back unchanged.
newFilament(body, id) ==
    [id |-> id,
     brand |-> body.brand,
     product_name |-> body.product_name,
     material |-> body.material,
     color |-> OrElse(body.color, JsNull),
     nozzle_temp_min |-> Num(ToNumber(body.nozzle_temp_min).n),
     nozzle_temp_max |-> Num(ToNumber(body.nozzle_temp_max).n),
     bed_temp_min |-> Num(ToNumber(body.bed_temp_min).n),
     bed_temp_max |-> Num(ToNumber(body.bed_temp_max).n),
     special_type |-> OrElse(body.special_type, JsNull),
     notes |-> OrElse(body.notes, Str(<<>>))]

\* A handler that puts the new record in front of the collection.
WithFilamentFirst(data, f) ==
    [k \in DOMAIN data \cup {"filaments"} |->
        IF k = "filaments" THEN <<f>> \o DataFilaments(data) ELSE data[k]]

\* filaments.push(newFilament); data.filaments = filaments
WithFilament(data, f) ==
    [k \in DOMAIN data \cup {"filaments"} |->
        IF k = "filaments" THEN Append(DataFilaments(data), f) ELSE data[k]]

\* What fs.writeFileSync may leave behind when it throws: the file as it
\* was (the open failed) or a truncated file (the open with flag "w"
\* succeeded and the write did not complete).
FailedWriteLeaves(old) == {old, Torn}

Respond(r) == responses' = Append(responses, r)

\* A handler that reads the file before it validates the body.
PostRejectedAfterRead(body) ==
    /\ Len(responses) < MaxRequests
    /\ ValidationError(body) # Passed
    /\ Respond(ValidationError(body))
    /\ fsCalls' = [fsCalls EXCEPT !.read = @ + 1]
    /\ UNCHANGED disk
    /\ UNCHANGED notServerVars

\* The body fails the validation: 400 before the try block is entered.
PostRejected(body) ==
    /\ Len(responses) < MaxRequests
    /\ ValidationError(body) # Passed
    /\ Respond(ValidationError(body))
    /\ UNCHANGED <<disk, fsCalls>>
    /\ UNCHANGED notServerVars

\* fs.readFileSync throws: caught, 500.
PostReadFails(body) ==
    /\ Len(responses) < MaxRequests
    /\ ValidationError(body) = Passed
    /\ fsCalls' = [fsCalls EXCEPT !.read = @ + 1]
    /\ Respond([status |-> 500, error |-> StorageErrorText])
    /\ UNCHANGED disk
    /\ UNCHANGED notServerVars

\* JSON.parse throws on what was read: caught, 500.
PostParseFails(body) ==
    /\ Len(responses) < MaxRequests
    /\ ValidationError(body) = Passed
    /\ disk = Torn
    /\ fsCalls' = [fsCalls EXCEPT !.read = @ + 1]
    /\ Respond([status |-> 500, error |-> StorageErrorText])
    /\ UNCHANGED disk
    /\ UNCHANGED notServerVars

\* fs.writeFileSync throws: caught, 500.
PostWriteFails(body) ==
    /\ Len(responses) < MaxRequests
    /\ ValidationError(body) = Passed
    /\ disk # Torn
    /\ fsCalls' = [read |-> fsCalls.read + 1, write |-> fsCalls.write + 1]
    /\ disk' \in FailedWriteLeaves(disk)
    /\ Respond([status |-> 500, error |-> StorageErrorText])
    /\ UNCHANGED notServerVars

\* The handler runs to its end: read, parse, push, write, 201.
PostCreated(body) ==
    /\ Len(responses) < MaxRequests
    /\ ValidationError(body) = Passed
    /\ disk # Torn
    /\ LET created == newFilament(body, newId(DataFilaments(disk)))
       IN  /\ disk' = WithFilament(disk, created)
           /\ Respond([status |-> 201, success |-> TRUE, filament |-> created])
    /\ fsCalls' = [read |-> fsCalls.read + 1, write |-> fsCalls.write + 1]
    /\ UNCHANGED notServerVars

\* One request, from its arrival to its response. The handler makes only
\* synchronous calls, so no other request runs between its read and write.
Post(body) ==
    \/ PostRejected(body)
    \/ PostReadFails(body)
    \/ PostParseFails(body)
    \/ PostWriteFails(body)
    \/ PostCreated(body)

\* A filament already in the file, as an earlier request left it.
Stored(id) == newFilament(BaseBody, id)

\* The documents the file may hold when the server starts.
StartDocuments ==
    { [materials |-> <<PLA>>, filaments |-> <<>>],
      [materials |-> <<PLA>>],
      [materials |-> <<PLA>>, filaments |-> <<Stored(3), Stored(1)>>] }

AppendInit ==
    /\ PagesInit
    /\ disk \in StartDocuments
    /\ responses = <<>>
    /\ fsCalls = [read |-> 0, write |-> 0]

\* The file holds an empty filaments collection when the server starts.
EmptyInit ==
    /\ AppendInit
    /\ DataFilaments(disk) = <<>>

AppendNext ==
    \/ \E body \in Bodies : PostRejected(body)
    \/ \E body \in Bodies : PostReadFails(body)
    \/ \E body \in Bodies : PostParseFails(body)
    \/ \E body \in Bodies : PostWriteFails(body)
    \/ \E body \in Bodies : PostCreated(body)

\* The append endpoint, from any start document.
SpecAppend == AppendInit /\ [][AppendNext]_vars

\* The append endpoint, from an empty filaments collection.
SpecAppendEmpty == EmptyInit /\ [][AppendNext]_vars

\* The append endpoint under a server that answers every request it gets.
SpecAppendFair == AppendInit /\ [][AppendNext]_vars /\ WF_vars(AppendNext)

(***************************************************************************)
(* The add-filament page: public/js/filament-add.js.                       *)
(***************************************************************************)
\* The save requests the page may have under way at a time.
MaxPending == 1

\* What a user leaves in an input of the form.
AddTexts ==
    [brand |-> {<<>>, <<" ", "A", " ">>},
     product |-> {<<>>, <<"P">>},
     nozzleMin |-> {<<>>, <<"2", "0", "0">>},
     nozzleMax |-> {<<>>, <<"2", "2", "0">>},
     bedMin |-> {<<>>, <<"5", "0">>},
     bedMax |-> {<<>>, <<"6", "0">>},
     special |-> {<<>>, <<"s">>},
     notes |-> {<<>>, <<"n">>}]

\* The options of #add-color in the page's markup.
AddColorOptions == {"", "red"}

\* A trim that trims nothing.
trimNothing(text) == text

\* String.prototype.trim
trim(text) == DropTrailingWhiteSpace(SkipWhiteSpace(text))

\* The add page's populateMaterialOptions: the placeholder and one option
\* for each material; a select whose options were rebuilt shows the first.
populateAddMaterialOptions(list) ==
    [options |-> <<"">> \o MapNames(list), value |-> ""]

\* temp is NaN ? fallback : temp
OrFallback(temp, fallback) == IF NumberIsNaN(temp) THEN fallback ELSE temp.n

getPreviewData(form) ==
    [brand |-> IF trim(form.brand) = <<>> THEN <<"B", "r", "a", "n", "d">>
               ELSE trim(form.brand),
     product_name |-> IF trim(form.product) = <<>> THEN <<"P", "r", "o", "d">>
                      ELSE trim(form.product),
     material |-> IF form.material.value = "" THEN "Material" ELSE form.material.value,
     color |-> IF form.color = "" THEN Null ELSE form.color,
     nozzle_temp_min |-> OrFallback(parseInt(form.nozzleMin), 200),
     nozzle_temp_max |-> OrFallback(parseInt(form.nozzleMax), 220),
     bed_temp_min |-> OrFallback(parseInt(form.bedMin), 50),
     bed_temp_max |-> OrFallback(parseInt(form.bedMax), 60),
     special_type |-> trim(form.special),
     notes |-> trim(form.notes)]

getDataForSave(form) ==
    [brand |-> trim(form.brand),
     product_name |-> trim(form.product),
     material |-> form.material.value,
     color |-> IF form.color = "" THEN Null ELSE form.color,
     nozzle_temp_min |-> parseInt(form.nozzleMin),
     nozzle_temp_max |-> parseInt(form.nozzleMax),
     bed_temp_min |-> parseInt(form.bedMin),
     bed_temp_max |-> parseInt(form.bedMax),
     special_type |-> trim(form.special),
     notes |-> trim(form.notes)]

\* The preview holds one card, built from the form as it is after the event.
renderPreview == previewContainer' = <<getPreviewData(addForm')>>

\* !data.brand || !data.product_name || !data.material
SaveDataIncomplete(data) ==
    data.brand = <<>> \/ data.product_name = <<>> \/ data.material = ""

\* nums.some((n) => Number.isNaN(parseInt(n, 10))): parseInt of a number
\* parses its decimal text, which is "NaN" for NaN and the digits of an integer.
SaveDataNotNumeric(data) ==
    \E n \in {data.nozzle_temp_min, data.nozzle_temp_max,
               data.bed_temp_min, data.bed_temp_max} : NumberIsNaN(n)

\* The messages the click handler alerts of its own.
AlertTexts ==
    [incomplete |-> "Please fill at least brand, product name and material.",
     notNumeric |-> "Please provide numeric values for all temperatures.",
     couldNotSave |-> "Could not save filament.",
     saved |-> "Filament saved. It will now appear in the main list.",
     unexpected |-> "Unexpected error while saving. See console for details."]

\* The property error of a response body that has none.
Absent == "<absent>"

\* How a fetch("/api/filaments") settles: it rejects (network error), or
\* it resolves with a response that is ok or not, whose body parses as JSON
\* or not and carries an error text, an empty one or none.
SaveOutcomes ==
    { [kind |-> "rejected", ok |-> FALSE, parses |-> FALSE, error |-> Absent] }
    \cup { [kind |-> "response", ok |-> TRUE, parses |-> p, error |-> Absent] :
             p \in BOOLEAN }
    \cup { [kind |-> "response", ok |-> FALSE, parses |-> TRUE, error |-> e] :
             e \in {RequiredErrorText, StorageErrorText, "", Absent} }
    \cup { [kind |-> "response", ok |-> FALSE, parses |-> FALSE, error |-> Absent] }

(***************************************************************************)
(* The add page's events.                                                  *)
(***************************************************************************)
\* The second then-handler of the page's fetch("/data/filaments.json").
AddFetchLoaded ==
    /\ location = AddPath
    /\ addFetchState = "pending"
    /\ addFetchState' = "loaded"
    /\ \E list \in SampleMaterials :
        /\ addMaterials' = list
        /\ addForm' = [addForm EXCEPT !.material = populateAddMaterialOptions(list)]
    /\ renderPreview
    /\ UNCHANGED <<savePending, alertText, location>>
    /\ UNCHANGED notAddVars

\* Its catch-handler: console.error(err).
AddFetchFailed ==
    /\ location = AddPath
    /\ addFetchState = "pending"
    /\ addFetchState' = "failed"
    /\ UNCHANGED <<addMaterials, addForm, previewContainer, savePending, alertText,
                   location>>
    /\ UNCHANGED notAddVars

\* The user types in a text input: its "input" listener is renderPreview.
AddInput ==
    /\ location = AddPath
    /\ \E field \in DOMAIN AddTexts :
        \E text \in AddTexts[field] \ {addForm[field]} :
            addForm' = [addForm EXCEPT ![field] = text]
    /\ renderPreview
    /\ UNCHANGED <<addFetchState, addMaterials, savePending, alertText, location>>
    /\ UNCHANGED notAddVars

\* The user picks a material or a color: the "change" listener is renderPreview.
AddSelectChange ==
    /\ location = AddPath
    /\ \/ \E v \in SelectOptions(addForm.material) \ {addForm.material.value} :
            addForm' = [addForm EXCEPT !.material.value = v]
       \/ \E v \in AddColorOptions \ {addForm.color} :
            addForm' = [addForm EXCEPT !.color = v]
    /\ renderPreview
    /\ UNCHANGED <<addFetchState, addMaterials, savePending, alertText, location>>
    /\ UNCHANGED notAddVars

\* The form's "submit": preventDefault and a preview refresh.
AddFormSubmit ==
    /\ location = AddPath
    /\ UNCHANGED addForm
    /\ renderPreview
    /\ UNCHANGED <<addFetchState, addMaterials, savePending, alertText, location>>
    /\ UNCHANGED notAddVars

\* The save button's click handler up to its await: an alert and a return
\* when a check fails, the fetch otherwise.
SaveClick ==
    /\ location = AddPath
    /\ LET data == getDataForSave(addForm)
       IN  IF SaveDataIncomplete(data)
           THEN alertText' = AlertTexts.incomplete /\ UNCHANGED savePending
           ELSE IF SaveDataNotNumeric(data)
                THEN alertText' = AlertTexts.notNumeric /\ UNCHANGED savePending
                ELSE /\ savePending < MaxPending
                     /\ savePending' = savePending + 1
                     /\ UNCHANGED alertText
    /\ UNCHANGED <<addFetchState, addMaterials, addForm, previewContainer, location>>
    /\ UNCHANGED notAddVars

\* errData.error || "Could not save filament.", errData being the parsed
\* body, or {} when response.json() rejects.
ErrorMessage(outcome) ==
    IF outcome.parses /\ outcome.error \notin {Absent, ""}
    THEN outcome.error
    ELSE AlertTexts.couldNotSave

\* A handler that redirects whatever the response.
SaveSettlesAlwaysRedirects(outcome) ==
    /\ location = AddPath
    /\ savePending > 0
    /\ savePending' = savePending - 1
    /\ alertText' = AlertTexts.saved
    /\ location' = FinderPath
    /\ UNCHANGED <<addFetchState, addMaterials, addForm, previewContainer>>
    /\ UNCHANGED notAddVars

\* The rest of the click handler, from the settling of its fetch on.
SaveSettles(outcome) ==
    /\ location = AddPath
    /\ savePending > 0
    /\ savePending' = savePending - 1
    /\ IF outcome.kind = "rejected" \/ (outcome.ok /\ ~outcome.parses)
       THEN alertText' = AlertTexts.unexpected /\ UNCHANGED location
       ELSE IF ~outcome.ok
            THEN alertText' = ErrorMessage(outcome) /\ UNCHANGED location
            ELSE alertText' = AlertTexts.saved /\ location' = FinderPath
    /\ UNCHANGED <<addFetchState, addMaterials, addForm, previewContainer>>
    /\ UNCHANGED notAddVars

AddNext ==
    \/ AddFetchLoaded
    \/ AddFetchFailed
    \/ AddInput
    \/ AddSelectChange
    \/ AddFormSubmit
    \/ SaveClick
    \/ \E outcome \in SaveOutcomes : SaveSettles(outcome)

\* The add-filament page, beside an idle finder page and server.
SpecAddPage == Init /\ [][AddNext]_vars

(***************************************************************************)
(* handleErrors: utilities/handleErrors.js.                                *)
(***************************************************************************)
\* The requests a wrapped route handles.
MaxCalls == 3

\* The errors a controller raises, and no error.
Errors == {"E1", "E2"}
NoError == "<none>"

\* The record of a call in which the controller returned: a value that is
\* no promise, so that Promise.resolve(value) is fulfilled and .catch never
\* fires, or a promise yet to settle, to which .catch(next) is attached.
ControllerReturned(promise) ==
    [promise |-> promise, error |-> NoError, next |-> NoError, thrown |-> NoError]

\* The controller threw err: fn(req, res, next) is evaluated as the argument
\* of Promise.resolve, so the exception leaves the returned middleware
\* before a promise exists and before .catch(next) is attached.
ControllerThrew(err) ==
    [promise |-> "none", error |-> err, next |-> NoError, thrown |-> err]

\* The middleware handleErrors(fn) returns, called for a request.
WrappedCalled ==
    /\ Len(wrapperCalls) < MaxCalls
    /\ \E call \in { ControllerReturned(promise) : promise \in {"fulfilled", "pending"} }
                   \cup { ControllerThrew(err) : err \in Errors } :
        wrapperCalls' = Append(wrapperCalls, call)
    /\ UNCHANGED notWrapperVars

\* The promise a controller returned is fulfilled: .catch does not fire.
ControllerFulfils ==
    /\ \E i \in 1..Len(wrapperCalls) :
        /\ wrapperCalls[i].promise = "pending"
        /\ wrapperCalls' = [wrapperCalls EXCEPT ![i].promise = "fulfilled"]
    /\ UNCHANGED notWrapperVars

\* The promise a controller returned is rejected with err.
ControllerRejects ==
    /\ \E i \in 1..Len(wrapperCalls), err \in Errors :
        /\ wrapperCalls[i].promise = "pending"
        /\ wrapperCalls' = [wrapperCalls EXCEPT ![i].promise = "rejected",
                                                ![i].error = err]
    /\ UNCHANGED notWrapperVars

\* The reaction .catch(next) attached runs: next(err).
CatchCallsNext ==
    /\ \E i \in 1..Len(wrapperCalls) :
        /\ wrapperCalls[i].promise = "rejected"
        /\ wrapperCalls[i].next = NoError
        /\ wrapperCalls' = [wrapperCalls EXCEPT ![i].next = wrapperCalls[i].error]
    /\ UNCHANGED notWrapperVars

WrapperNext ==
    \/ WrappedCalled
    \/ ControllerFulfils
    \/ ControllerRejects
    \/ CatchCallsNext

\* The wrapped routes, beside idle pages and an idle endpoint.
SpecWrapper == Init /\ [][WrapperNext]_vars

(***************************************************************************)
(* Hangman: public/js/hangman.js.                                          *)
(***************************************************************************)
\* Three of the words of allWords, one of each difficulty.
allWords ==
    << <<"c", "a", "t">>,
       <<"n", "o", "z", "z", "l", "e">>,
       <<"p", "o", "r", "t", "f", "o", "l", "i", "o">> >>

\* hangmanStages.length: the stages for 0..10 wrong guesses.
hangmanStagesLength == 11

\* const alphabet = "ABCDEFGHIJKLMNOPQRSTUVWXYZ", and its lower case.
alphabet ==
    <<"A", "B", "C", "D", "E", "F", "G", "H", "I", "J", "K", "L", "M",
      "N", "O", "P", "Q", "R", "S", "T", "U", "V", "W", "X", "Y", "Z">>
lowerCase ==
    <<"a", "b", "c", "d", "e", "f", "g", "h", "i", "j", "k", "l", "m",
      "n", "o", "p", "q", "r", "s", "t", "u", "v", "w", "x", "y", "z">>

toLowerCase(ch) == lowerCase[CHOOSE i \in 1..26 : alphabet[i] = ch]
toUpperCase(ch) == alphabet[CHOOSE i \in 1..26 : lowerCase[i] = ch]

\* The keys a player clicks: three of them at any time, the others in the
\* order of the alphabet.
FreeKeys == {"A", "C", "T"}
OrderedKeys == <<"B", "D", "F", "G", "H", "I", "J", "K">>

\* The options of #hangman-difficulty.
Difficulties == {"easy", "medium", "hard"}

\* The words pickRandomWord may return: those of the difficulty's length,
\* or all of them when there is none. The words are in lower case and trimmed.
pickRandomWord(difficulty) ==
    LET minLength == CASE difficulty = "medium" -> 6 [] difficulty = "hard" -> 9
                       [] OTHER -> 1
        bounded == difficulty # "hard"
        maxLength == CASE difficulty = "medium" -> 8 [] OTHER -> 5
        filtered == { i \in 1..Len(allWords) :
                        /\ Len(allWords[i]) >= minLength
                        /\ bounded => Len(allWords[i]) <= maxLength }
        list == IF filtered # {} THEN filtered ELSE 1..Len(allWords)
    IN  { allWords[i] : i \in list }

\* Array.prototype.join over one-character strings.
RECURSIVE join(_, _)
join(list, separator) ==
    IF Len(list) <= 1 THEN list
    ELSE <<Head(list)>> \o separator \o join(Tail(list), separator)

\* String(n) for 0 <= n < 100.
NumberToText(n) ==
    LET digit(d) == CHOOSE c \in Digits : DigitVal(c) = d
    IN  IF n < 10 THEN <<digit(n)>> ELSE <<digit(n \div 10), digit(n % 10)>>

\* The stage drawFigure writes: Math.min(Math.max(stage, 0), length - 1).
drawFigure(stage) ==
    LET atLeast == IF stage > 0 THEN stage ELSE 0
    IN  IF atLeast < hangmanStagesLength - 1 THEN atLeast ELSE hangmanStagesLength - 1

updateWordDisplay == wordDisplay' = join(revealed', <<" ">>)

updateStatus ==
    /\ wrongCountSpan' = NumberToText(wrongGuesses')
    /\ guessedLettersSpan' = IF guessedLetters' = <<>> THEN <<"-">>
                              ELSE join(guessedLetters', <<",", " ">>)

\* A game that never runs out of attempts.
noAttemptsLeftNever(wrong) == FALSE

\* const noAttemptsLeft = wrongGuesses >= maxWrongGuesses
noAttemptsLeft(wrong) == wrong >= maxWrongGuesses

\* revealed.join("") === secretWord
wordGuessed(shown, word) == shown = word

\* A game that is never over.
isGameOverNever == FALSE

isGameOver == wordGuessed(revealed, secretWord) \/ noAttemptsLeft(wrongGuesses)

\* The keys disableKeyboard disables: all of them.
AllKeys == { alphabet[i] : i \in 1..26 }

\* A new game that keeps the letters guessed in the last one.
StartNewGameKeepingLetters ==
    /\ \E word \in pickRandomWord(IF difficultySelect = "" THEN "easy"
                                   ELSE difficultySelect) :
        /\ secretWord' = word
        /\ revealed' = [i \in 1..Len(word) |-> "_"]
        /\ messageSpan' = [kind |-> "chosen", length |-> Len(word)]
    /\ wrongGuesses' = 0
    /\ UNCHANGED guessedLetters
    /\ updateWordDisplay
    /\ updateStatus
    /\ figurePre' = drawFigure(0)
    /\ keyboard' = {}
    /\ UNCHANGED difficultySelect
    /\ UNCHANGED notHangmanVars

\* newGameButton's click handler: startNewGame.
StartNewGame ==
    /\ \E word \in pickRandomWord(IF difficultySelect = "" THEN "easy"
                                   ELSE difficultySelect) :
        /\ secretWord' = word
        /\ revealed' = [i \in 1..Len(word) |-> "_"]
        /\ messageSpan' = [kind |-> "chosen", length |-> Len(word)]
    /\ wrongGuesses' = 0
    /\ guessedLetters' = <<>>
    /\ updateWordDisplay
    /\ updateStatus
    /\ figurePre' = drawFigure(0)
    /\ keyboard' = {}
    /\ UNCHANGED difficultySelect
    /\ UNCHANGED notHangmanVars

\* The player picks another difficulty: no listener is attached to it.
DifficultyChange ==
    /\ \E v \in Difficulties \ {difficultySelect} : difficultySelect' = v
    /\ UNCHANGED <<secretWord, revealed, wrongGuesses, guessedLetters, wordDisplay,
                   wrongCountSpan, guessedLettersSpan, messageSpan, figurePre, keyboard>>
    /\ UNCHANGED notHangmanVars

\* The key ch can be clicked: it is not disabled, and it is a free key or
\* the first of the ordered keys not guessed in this game.
CanClick(ch) ==
    /\ ch \notin keyboard
    /\ \/ ch \in FreeKeys
       \/ \E i \in 1..Len(OrderedKeys) :
            /\ ch = OrderedKeys[i]
            /\ \A j \in 1..Len(guessedLetters) : guessedLetters[j] # toLowerCase(ch)
            /\ \A k \in 1..(i - 1) :
                  \E j \in 1..Len(guessedLetters) :
                      guessedLetters[j] = toLowerCase(OrderedKeys[k])

\* A guess that counts a letter missing from the word each time it is made.
handleGuessCounting(letter) ==
    /\ wrongGuesses' =
           IF \E i \in 1..Len(secretWord) : secretWord[i] = letter
           THEN wrongGuesses ELSE wrongGuesses + 1
    /\ messageSpan' = [kind |-> "incorrect", letter |-> toUpperCase(letter)]
    /\ UNCHANGED <<difficultySelect, secretWord, revealed, guessedLetters, wordDisplay,
                   wrongCountSpan, guessedLettersSpan, figurePre, keyboard>>
    /\ UNCHANGED notHangmanVars

\* handleGuess(letter), with updateKeyboardState and checkGameEnd at its end.
handleGuess(letter) ==
    /\ LET tried == \E j \in 1..Len(guessedLetters) : guessedLetters[j] = letter
           included == \E i \in 1..Len(secretWord) : secretWord[i] = letter
       IN  IF isGameOver
           THEN UNCHANGED hangmanVars
           ELSE IF tried
           THEN /\ messageSpan' = [kind |-> "tried", letter |-> toUpperCase(letter)]
                /\ UNCHANGED <<difficultySelect, secretWord, revealed, wrongGuesses,
                               guessedLetters, wordDisplay, wrongCountSpan,
                               guessedLettersSpan, figurePre, keyboard>>
           ELSE /\ guessedLetters' = Append(guessedLetters, letter)
                /\ revealed' = [i \in 1..Len(secretWord) |->
                                  IF secretWord[i] = letter THEN letter ELSE revealed[i]]
                /\ wrongGuesses' = IF included THEN wrongGuesses ELSE wrongGuesses + 1
                /\ updateWordDisplay
                /\ updateStatus
                /\ IF wordGuessed(revealed', secretWord)
                   THEN /\ messageSpan' = [kind |-> "won"]
                        /\ figurePre' = drawFigure(wrongGuesses')
                        /\ keyboard' = AllKeys
                   ELSE IF noAttemptsLeft(wrongGuesses')
                   THEN /\ messageSpan' =
                              [kind |-> "lost",
                               word |-> [i \in 1..Len(secretWord) |->
                                           toUpperCase(secretWord[i])]]
                        /\ figurePre' = drawFigure(maxWrongGuesses)
                        /\ keyboard' = AllKeys
                   ELSE /\ messageSpan' =
                              [kind |-> IF included THEN "correct" ELSE "incorrect",
                               letter |-> toUpperCase(letter)]
                        /\ figurePre' = drawFigure(wrongGuesses')
                        /\ keyboard' = { k \in AllKeys :
                                           \E j \in 1..Len(guessedLetters') :
                                               guessedLetters'[j] = toLowerCase(k) }
                /\ UNCHANGED <<difficultySelect, secretWord>>
    /\ UNCHANGED notHangmanVars

\* The click handler of the key ch: handleGuess(ch.toLowerCase()).
KeyClick(ch) == CanClick(ch) /\ handleGuess(toLowerCase(ch))

HangmanNext ==
    \/ StartNewGame
    \/ DifficultyChange
    \/ \E ch \in FreeKeys \cup { OrderedKeys[i] : i \in 1..Len(OrderedKeys) } : KeyClick(ch)

\* The hangman page, beside the other pages and the server, all idle.
SpecHangman == Init /\ [][HangmanNext]_vars

\* handleGuess called with any letter, one tried before included.
GuessNext ==
    \/ StartNewGame
    \/ DifficultyChange
    \/ \E letter \in {"a", "c", "t", "b", "d"} : handleGuess(letter)

\* The game under calls of handleGuess that no disabled key holds back.
SpecGuess == Init /\ [][GuessNext]_vars

(***************************************************************************)
(* The header of every page: the mobile navigation toggle                  *)
(* (public/js/nav.js) and the contact modal (public/js/contact-modal.js).  *)
(* Both scripts listen to keydown on the document, so one key press runs   *)
(* both listeners.                                                         *)
(***************************************************************************)
\* The two labels the wrong way round.
MenuLabelSwapped(nextState) == IF nextState THEN "Open menu" ELSE "Close menu"

\* The label the toggle gets for the state the click leads to.
MenuLabel(nextState) == IF nextState THEN "Close menu" ELSE "Open menu"

\* setAttribute("aria-expanded", "false") and setAttribute("aria-label", "Open menu").
MenuClosed == [ariaExpanded |-> "false", ariaLabel |-> "Open menu"]

\* Click on #nav-toggle.
NavToggleClick ==
    /\ LET isOpen == navToggle.ariaExpanded = "true"
           nextState == ~isOpen
       IN  navToggle' = [ariaExpanded |-> IF nextState THEN "true" ELSE "false",
                         ariaLabel |-> MenuLabel(nextState)]
    /\ UNCHANGED <<activeElement, modalStyle, contactInputs, contactErrors, href>>
    /\ UNCHANGED notHeaderVars

\* Click inside #primary-nav, on a link (event.target.closest("a")) or beside one.
NavListClick(onLink) ==
    /\ navToggle' = IF onLink THEN MenuClosed ELSE navToggle
    /\ UNCHANGED <<activeElement, modalStyle, contactInputs, contactErrors, href>>
    /\ UNCHANGED notHeaderVars

\* resetErrors(): the three texts are emptied and has-error is removed.
NoErrors == [errorContact |-> "", errorMessage |-> "", mailtoError |-> "", hasError |-> {}]

\* Click on #nav-contact-link: resetErrors() and openModal(). The link may
\* stand inside #primary-nav, where the click reaches the list's listener too.
ContactLinkClick ==
    /\ \E inPrimaryNav \in BOOLEAN :
           navToggle' = IF inPrimaryNav THEN MenuClosed ELSE navToggle
    /\ contactErrors' = NoErrors
    /\ modalStyle' = [overlay |-> "block", modal |-> "block", bodyOverflow |-> "hidden"]
    /\ UNCHANGED <<activeElement, contactInputs, href>>
    /\ UNCHANGED notHeaderVars

\* Click on the overlay or on #close-button: closeModal().
CloseClick ==
    /\ modalStyle' = [overlay |-> "none", modal |-> "none", bodyOverflow |-> ""]
    /\ UNCHANGED <<navToggle, activeElement, contactInputs, contactErrors, href>>
    /\ UNCHANGED notHeaderVars

\* keydown on the document: the listener of nav.js closes an open menu and
\* focuses the toggle, the listener of contact-modal.js closes a shown modal.
KeyDown(key) ==
    /\ IF key = "Escape" /\ navToggle.ariaExpanded = "true"
       THEN navToggle' = MenuClosed /\ activeElement' = "nav-toggle"
       ELSE UNCHANGED <<navToggle, activeElement>>
    /\ modalStyle' = IF key = "Escape" /\ modalStyle.modal = "block"
                     THEN [overlay |-> "none", modal |-> "none", bodyOverflow |-> ""]
                     ELSE modalStyle
    /\ UNCHANGED <<contactInputs, contactErrors, href>>
    /\ UNCHANGED notHeaderVars

\* The user types into one of the four inputs, which has the focus then.
ContactInput(field, text) ==
    /\ contactInputs' = [contactInputs EXCEPT ![field] = text]
    /\ activeElement' = field
    /\ UNCHANGED <<navToggle, modalStyle, contactErrors, href>>
    /\ UNCHANGED notHeaderVars

\* The mailto: URL the submit listener builds from the trimmed texts: of the
\* lines of the body the empty ones are filtered out, the rest is joined by
\* "\n"; encodeURIComponent leaves the letters and escapes the space, the
\* colon and the line feed, the characters the texts and the templates hold.
mailto(name, company, contact, message) ==
    LET Escape(ch) == CASE ch = " " -> <<"%", "2", "0">>
                        [] ch = ":" -> <<"%", "3", "A">>
                        [] ch = "\n" -> <<"%", "0", "A">>
                        [] OTHER -> <<ch>>
        RECURSIVE encodeURIComponent(_)
        encodeURIComponent(t) ==
            IF t = <<>> THEN <<>> ELSE Escape(Head(t)) \o encodeURIComponent(Tail(t))
        subject == <<"P", "o", "r", "t", "f", "o", "l", "i", "o", " ",
                     "c", "o", "n", "t", "a", "c", "t">>
                   \o (IF name # <<>> THEN <<" ", "f", "r", "o", "m", " ">> \o name
                       ELSE <<>>)
        bodyLines ==
            <<IF name # <<>> THEN <<"N", "a", "m", "e", ":", " ">> \o name ELSE <<>>,
              IF company # <<>>
              THEN <<"C", "o", "m", "p", "a", "n", "y", ":", " ">> \o company ELSE <<>>,
              IF contact # <<>>
              THEN <<"H", "o", "w", " ", "t", "o", " ", "c", "o", "n", "t", "a", "c", "t",
                     " ", "m", "e", " ", "b", "a", "c", "k", ":", " ">> \o contact
              ELSE <<>>,
              <<>>,
              message>>
        kept == SelectSeq(bodyLines, LAMBDA line : line # <<>>)
        RECURSIVE JoinLines(_)
        JoinLines(lines) ==
            IF lines = <<>> THEN <<>>
            ELSE IF Len(lines) = 1 THEN lines[1]
            ELSE lines[1] \o <<"\n">> \o JoinLines(Tail(lines))
    IN  [mailto |-> "stevenkemendics@gmail.com",
         subject |-> encodeURIComponent(subject),
         body |-> encodeURIComponent(JoinLines(kept))]

\* submit of #contact-form: resetErrors(), then the required fields are
\* checked; with both filled the mailto: URL is assigned to
\* window.location.href, which the browser accepts or rejects by throwing.
ContactFormSubmit ==
    /\ LET contact == trim(contactInputs.contact)
           message == trim(contactInputs.message)
           name == trim(contactInputs.name)
           company == trim(contactInputs.company)
       IN  IF contact = <<>> \/ message = <<>>
           THEN /\ contactErrors' =
                      [NoErrors EXCEPT
                         !.errorContact =
                             IF contact = <<>>
                             THEN "Please tell me how I can contact you." ELSE "",
                         !.errorMessage =
                             IF message = <<>> THEN "Please write a short message." ELSE "",
                         !.hasError =
                             (IF contact = <<>> THEN {"contact"} ELSE {}) \cup
                             (IF message = <<>> THEN {"message"} ELSE {})]
                /\ UNCHANGED href
           ELSE \/ /\ href' = mailto(name, company, contact, message)
                   /\ contactErrors' =
                          [NoErrors EXCEPT !.mailtoError = "If no email window opened, there is probably no default email program configured on this device. In that case you can contact me directly at: stevenkemendics@gmail.com"]
                \/ /\ UNCHANGED href
                   /\ contactErrors' =
                          [NoErrors EXCEPT !.mailtoError = "Your browser could not open an email program. It looks like no email application is configured on this device."]
    /\ UNCHANGED <<navToggle, activeElement, modalStyle, contactInputs>>
    /\ UNCHANGED notHeaderVars

\* The events of the header. The texts typed are empty, blank or hold
\* letters, a colon and a trailing space.
HeaderNext ==
    \/ NavToggleClick
    \/ \E onLink \in BOOLEAN : NavListClick(onLink)
    \/ ContactLinkClick
    \/ CloseClick
    \/ \E key \in {"Escape", "Enter"} : KeyDown(key)
    \/ \E text \in {<<>>, <<"A", "l">>} : ContactInput("name", text)
    \/ \E text \in {<<>>, <<"C", "o">>} : ContactInput("company", text)
    \/ \E text \in {<<>>, <<" ">>, <<"a", ":", "b">>} : ContactInput("contact", text)
    \/ \E text \in {<<>>, <<" ", " ">>, <<"H", "i", " ">>} : ContactInput("message", text)
    \/ ContactFormSubmit

\* The header of a page, beside the pages and the server, all idle.
SpecHeader == Init /\ [][HeaderNext]_vars

(***************************************************************************)
(* The hover image of the education entries (public/js/education-hover.js).*)
(* Every timer runs 220 ms, so the timers run in the order they were set.  *)
(***************************************************************************)
\* Number of setTimeout calls in one behaviour.
MaxTimers == 3

\* positionBox(event): the box is made visible to be measured and is put
\* right of and below the cursor, or left of it or above it where the
\* viewport (100 by 100 here, the box 40 by 40) leaves no room.
positionBox(event) ==
    LET padding == 16
        x == event.clientX + padding
        y == event.clientY + padding
    IN  [visible |-> TRUE,
         left |-> IF x + 40 + padding > 100 THEN event.clientX - 40 - padding ELSE x,
         top |-> IF y + 40 + padding > 100 THEN event.clientY - 40 - padding ELSE y]

\* mouseenter on a trigger, whose data-img is imgSrc: showBox(imgSrc, event).
MouseEnterTrigger(trigger, imgSrc, event) ==
    /\ pointer = "elsewhere"
    /\ pointer' = trigger
    /\ IF imgSrc = ""
       THEN UNCHANGED <<timers, hoverImg, hoverBox>>
       ELSE /\ timers' = SelectSeq(timers, LAMBDA id : id # hideTimeout)
            /\ hoverImg' = imgSrc
            /\ hoverBox' = positionBox(event)
    /\ UNCHANGED hideTimeout
    /\ UNCHANGED notHoverVars

\* mousemove on the trigger the pointer is over.
MouseMoveTrigger(trigger, imgSrc, event) ==
    /\ pointer = trigger
    /\ hoverBox' = IF imgSrc = "" THEN hoverBox ELSE positionBox(event)
    /\ UNCHANGED <<pointer, hideTimeout, timers, hoverImg>>
    /\ UNCHANGED notHoverVars

\* mouseleave of the trigger or of the box the pointer is over: scheduleHide().
MouseLeave ==
    /\ pointer # "elsewhere"
    /\ hideTimeout < MaxTimers
    /\ pointer' = "elsewhere"
    /\ hideTimeout' = hideTimeout + 1
    /\ timers' = Append(timers, hideTimeout + 1)
    /\ UNCHANGED <<hoverImg, hoverBox>>
    /\ UNCHANGED notHoverVars

\* mouseenter on the box: clearTimeout(hideTimeout).
MouseEnterBox ==
    /\ pointer = "elsewhere"
    /\ pointer' = "box"
    /\ timers' = SelectSeq(timers, LAMBDA id : id # hideTimeout)
    /\ UNCHANGED <<hideTimeout, hoverImg, hoverBox>>
    /\ UNCHANGED notHoverVars

\* The oldest timer runs its callback: classList.remove("is-visible").
TimerFires ==
    /\ timers # <<>>
    /\ timers' = Tail(timers)
    /\ hoverBox' = [hoverBox EXCEPT !.visible = FALSE]
    /\ UNCHANGED <<pointer, hideTimeout, hoverImg>>
    /\ UNCHANGED notHoverVars

\* The events of the education section: two triggers with a data-img and
\* one without, the cursor near the top left or the bottom right corner.
HoverNext ==
    \/ \E t \in {<<"school", "school.png">>, <<"course", "course.png">>, <<"plain", "">>} :
           \E event \in [clientX : {10, 90}, clientY : {10, 90}] :
               MouseEnterTrigger(t[1], t[2], event)
    \/ \E t \in {<<"school", "school.png">>, <<"course", "course.png">>, <<"plain", "">>} :
           \E event \in [clientX : {10, 90}, clientY : {10, 90}] :
               MouseMoveTrigger(t[1], t[2], event)
    \/ MouseLeave
    \/ MouseEnterBox
    \/ TimerFires

\* The education section, beside the pages and the server, all idle.
SpecHover == Init /\ [][HoverNext]_vars

(***************************************************************************)
(* What the spec says of the Filter Engine, stated without the code's      *)
(* conversions.                                                            *)
(***************************************************************************)
\* A text that is a plain decimal integer.
IsPlainInteger(text) ==
    /\ text # <<>>
    /\ \A i \in 1..Len(text) : text[i] \in Digits

\* The integer a plain decimal text denotes, digit by position.
RECURSIVE IntegerOf(_)
IntegerOf(text) ==
    IF text = <<>> THEN 0
    ELSE IntegerOf(SubSeq(text, 1, Len(text) - 1)) * 10 + DigitVal(text[Len(text)])

\* A temperature input of the type the spec gives it: empty or an integer.
WellTyped(text) == text = <<>> \/ IsPlainInteger(text)

\* f satisfies every supplied (non-empty) predicate.
Satisfies(f, mv, bv, cv, nt, bt) ==
    /\ mv # "" => f.material = mv
    /\ bv # "" => f.brand = bv
    /\ cv # "" => f.color = cv
    /\ nt # <<>> => f.nozzle_temp_min <= IntegerOf(nt) /\ IntegerOf(nt) <= f.nozzle_temp_max
    /\ bt # <<>> => f.bed_temp_min <= IntegerOf(bt) /\ IntegerOf(bt) <= f.bed_temp_max

\* shown lists exactly the elements of list whose position is in keep, in
\* the order of list.
IsSubsequenceAt(shown, list, keep) ==
    /\ Len(shown) = Cardinality(keep)
    /\ \A i \in keep : shown[Cardinality({ j \in keep : j <= i })] = list[i]

\* Any of the events wired to applyFilters.
FilterEvent ==
    \/ MaterialChange
    \/ BrandChange
    \/ ColorChange
    \/ NozzleInputEvent
    \/ BedInputEvent
    \/ FormSubmit

InList(f, list) == \E i \in 1..Len(list) : list[i] = f

\* C1: after every event that runs applyFilters with well-typed temperature
\* inputs, the rendered list is exactly the filaments that satisfy every
\* supplied (non-empty) predicate, in their original relative order; with
\* no predicate supplied it is the full collection.
C1_FilterExactSubset ==
    [][ (FilterEvent /\ WellTyped(nozzleInput') /\ WellTyped(bedInput')) =>
          /\ IsSubsequenceAt(resultsContainer', filaments',
                 { i \in 1..Len(filaments') :
                     Satisfies(filaments'[i], materialSelect'.value, brandSelect'.value,
                               colorSelect', nozzleInput', bedInput') })
          /\ ( /\ materialSelect'.value = ""
               /\ brandSelect'.value = ""
               /\ colorSelect' = ""
               /\ nozzleInput' = <<>>
               /\ bedInput' = <<>> ) => resultsContainer' = filaments' ]_vars

\* C1 witness: two filaments are loaded and a filter with a material and a
\* nozzle temperature supplied has rendered the second one only.
C1_Witness ==
    /\ fetchState = "loaded"
    /\ Len(filaments) = 2
    /\ materialSelect.value = "PETG"
    /\ nozzleInput = <<"2", "2", "0">>
    /\ resultsContainer = <<filaments[2]>>

\* C2: temperature containment is inclusive at both bounds. After an event
\* that runs applyFilters, a rendered filament has min <= t <= max for each
\* integer temperature t supplied, and with nothing else supplied a filament
\* is rendered if and only if min <= t <= max.
C2_InclusiveBounds ==
    [][ FilterEvent =>
          \A i \in 1..Len(filaments') :
            LET f == filaments'[i]
                shown == InList(f, resultsContainer')
                nt == nozzleInput'
                bt == bedInput'
                noText == /\ materialSelect'.value = ""
                          /\ brandSelect'.value = ""
                          /\ colorSelect' = ""
            IN  /\ (IsPlainInteger(nt) /\ shown) =>
                      (f.nozzle_temp_min <= IntegerOf(nt) /\ IntegerOf(nt) <= f.nozzle_temp_max)
                /\ (IsPlainInteger(bt) /\ shown) =>
                      (f.bed_temp_min <= IntegerOf(bt) /\ IntegerOf(bt) <= f.bed_temp_max)
                /\ (noText /\ IsPlainInteger(nt) /\ bt = <<>>) =>
                      (shown <=> (f.nozzle_temp_min <= IntegerOf(nt)
                                  /\ IntegerOf(nt) <= f.nozzle_temp_max))
                /\ (noText /\ IsPlainInteger(bt) /\ nt = <<>>) =>
                      (shown <=> (f.bed_temp_min <= IntegerOf(bt)
                                  /\ IntegerOf(bt) <= f.bed_temp_max)) ]_vars

\* C2 witness: the query 220 renders the filament whose nozzle range is
\* 200-220 (its upper bound) and not the loaded one whose range is 190-210.
C2_Witness ==
    /\ fetchState = "loaded"
    /\ nozzleInput = <<"2", "2", "0">>
    /\ materialSelect.value = "" /\ brandSelect.value = "" /\ colorSelect = ""
    /\ bedInput = <<>>
    /\ Len(filaments) = 2
    /\ \E i \in 1..2 : filaments[i].nozzle_temp_min = 190
    /\ Len(resultsContainer) = 1
    /\ resultsContainer[1].nozzle_temp_min = 200
    /\ resultsContainer[1].nozzle_temp_max = 220

\* The text begins, after blanks and an optional sign, with a digit.
BeginsWithInteger(text) ==
    \E p \in 1..Len(text) :
        /\ \A i \in 1..(p - 1) : text[i] = " "
        /\ \/ text[p] \in Digits
           \/ text[p] \in {"-", "+"} /\ p < Len(text) /\ text[p + 1] \in Digits

\* An integer outside the min..max range of every filament of the list.
OutOfEveryRange(text, list, lo(_), hi(_)) ==
    /\ IsPlainInteger(text)
    /\ \A i \in 1..Len(list) :
        IntegerOf(text) < lo(list[i]) \/ hi(list[i]) < IntegerOf(text)

NozzleMin(f) == f.nozzle_temp_min
NozzleMax(f) == f.nozzle_temp_max
BedMin(f) == f.bed_temp_min
BedMax(f) == f.bed_temp_max

\* C3 as claimed: an out-of-range number, or any text that is not a plain
\* integer, in a temperature input gives the result the empty input gives.
C3_Claimed_SkippedWhenOutOfRangeOrNonNumeric ==
    [][ FilterEvent =>
          /\ ( \/ OutOfEveryRange(nozzleInput', filaments', NozzleMin, NozzleMax)
               \/ (nozzleInput' # <<>> /\ ~IsPlainInteger(nozzleInput')) ) =>
                resultsContainer' =
                    Filtered(filaments', materialSelect'.value, brandSelect'.value,
                             colorSelect', <<>>, bedInput')
          /\ ( \/ OutOfEveryRange(bedInput', filaments', BedMin, BedMax)
               \/ (bedInput' # <<>> /\ ~IsPlainInteger(bedInput')) ) =>
                resultsContainer' =
                    Filtered(filaments', materialSelect'.value, brandSelect'.value,
                             colorSelect', nozzleInput', <<>>) ]_vars

\* The integer a text begins with, for a text that begins with one: the
\* digits that follow the blanks and the sign, negated under a "-".
LeadingIntegerOf(text) ==
    LET p == CHOOSE k \in 1..Len(text) :
                 text[k] # " " /\ \A i \in 1..(k - 1) : text[i] = " "
        q == IF text[p] \in {"-", "+"} THEN p + 1 ELSE p
        r == CHOOSE k \in q..Len(text) :
                 /\ \A i \in q..k : text[i] \in Digits
                 /\ k = Len(text) \/ text[k + 1] \notin Digits
        mag == IntegerOf(SubSeq(text, q, r))
    IN  IF text[p] = "-" THEN 0 - mag ELSE mag

\* f is within what the temperature text asks for: anything when the text
\* does not begin with an integer, lo..hi around that integer otherwise.
WithinAsked(text, lo, hi) ==
    BeginsWithInteger(text) =>
        (lo <= LeadingIntegerOf(text) /\ LeadingIntegerOf(text) <= hi)

\* C3 as amended: a temperature input that does not begin with an integer
\* constrains nothing, so the rendered list is the one of the other
\* predicates alone; an input that begins with an integer constrains by that
\* integer, and an integer outside the range of every filament renders no
\* filament at all.
C3_SkippedWhenNoLeadingInteger ==
    [][ FilterEvent =>
          /\ IsSubsequenceAt(resultsContainer', filaments',
                 { i \in 1..Len(filaments') :
                     /\ Satisfies(filaments'[i], materialSelect'.value,
                                  brandSelect'.value, colorSelect', <<>>, <<>>)
                     /\ WithinAsked(nozzleInput', filaments'[i].nozzle_temp_min,
                                    filaments'[i].nozzle_temp_max)
                     /\ WithinAsked(bedInput', filaments'[i].bed_temp_min,
                                    filaments'[i].bed_temp_max) })
          /\ ( \/ OutOfEveryRange(nozzleInput', filaments', NozzleMin, NozzleMax)
               \/ OutOfEveryRange(bedInput', filaments', BedMin, BedMax) ) =>
                resultsContainer' = <<>> ]_vars

\* C3 witness: with filaments loaded, the nozzle input holds "abc" and the
\* whole collection is rendered.
C3_Witness ==
    /\ fetchState = "loaded"
    /\ nozzleInput = <<"a", "b", "c">>
    /\ bedInput = <<>>
    /\ Len(filaments) = 2
    /\ resultsContainer = filaments

\* The empty-state message of renderResults is on display.
EmptyStateShown ==
    /\ emptyMessage.display = "block"
    /\ emptyMessage.text = NoMatchText

\* C4: the empty-state message is displayed only when the fetch has
\* completed successfully and the filter over the loaded filaments is empty.
C4_EmptyStateOnlyWhenLoaded ==
    EmptyStateShown =>
        /\ fetchState = "loaded"
        /\ Filtered(filaments, materialSelect.value, brandSelect.value,
                    colorSelect, nozzleInput, bedInput) = <<>>

(***************************************************************************)
(* What the spec says of the Append Service.                               *)
(***************************************************************************)
\* The filaments a persisted document holds; a file that is not JSON holds none.
FilamentsOf(d) ==
    IF d = Torn \/ "filaments" \notin DOMAIN d THEN <<>> ELSE d.filaments

IdsOf(d) == [i \in 1..Len(FilamentsOf(d)) |-> FilamentsOf(d)[i].id]

IsUniquePositive(ids) ==
    /\ \A i \in 1..Len(ids) : ids[i] \in Nat \ {0}
    /\ \A i, j \in 1..Len(ids) : i # j => ids[i] # ids[j]

\* This step sent a response.
ResponseSent == Len(responses') = Len(responses) + 1
\* The response this step sent.
Sent == responses'[Len(responses')]
\* This step answered 201.
Answered201 == ResponseSent /\ Sent.status = 201

NumCreated(rs) == Cardinality({ i \in 1..Len(rs) : rs[i].status = 201 })

\* C5: starting from an empty filaments collection, the N-th successful
\* request is answered with id N and leaves a document whose filament ids
\* are exactly 1..N in order, whatever requests failed before it; and as
\* long as the file holds a document its ids are 1..N.
C5_AppendMonotonic ==
    [][ /\ Answered201 =>
            /\ disk' # Torn
            /\ Sent.filament.id = NumCreated(responses')
            /\ IdsOf(disk') = [i \in 1..NumCreated(responses') |-> i]
        /\ disk' # Torn => IdsOf(disk') = [i \in 1..NumCreated(responses') |-> i] ]_vars

\* C5 witness: two requests succeeded with a failed one between them, and the
\* persisted ids are 1, 2.
C5_Witness ==
    /\ Len(responses) = 3
    /\ responses[1].status = 201 /\ responses[1].filament.id = 1
    /\ responses[2].status # 201
    /\ responses[3].status = 201 /\ responses[3].filament.id = 2
    /\ IdsOf(disk) = <<1, 2>>

MaxOf(S) == CHOOSE m \in S : \A x \in S : x <= m

\* C6: unique positive ids stay unique positive ids over every request, and
\* a successful append assigns max(existing ids) + 1 (1 when there is none),
\* greater than every id already present.
C6_IdsUniquePositive ==
    [][ /\ IsUniquePositive(IdsOf(disk)) => IsUniquePositive(IdsOf(disk'))
        /\ Answered201 =>
            LET old == { IdsOf(disk)[i] : i \in 1..Len(IdsOf(disk)) }
            IN  /\ Sent.filament.id = (IF old = {} THEN 1 ELSE MaxOf(old) + 1)
                /\ \A o \in old : Sent.filament.id > o
                /\ IdsOf(disk') = Append(IdsOf(disk), Sent.filament.id) ]_vars

\* C6 witness: the file started with the ids 3, 1 and two appends added 4, 5.
C6_Witness == IdsOf(disk) = <<3, 1, 4, 5>>

\* Two requests were both answered 201 with the same id and the document
\* does not hold both records.
LostUpdate ==
    \E i, j \in 1..Len(responses) :
        /\ i < j
        /\ responses[i].status = 201
        /\ responses[j].status = 201
        /\ responses[i].filament.id = responses[j].filament.id
        /\ ~( InList(responses[i].filament, FilamentsOf(disk))
              /\ InList(responses[j].filament, FilamentsOf(disk)) )

IsBlankText(text) == \A i \in 1..Len(text) : text[i] = " "

\* A required string that is absent or empty.
LacksRequired(body) ==
    \E i \in 1..Len(requiredFields) :
        LET v == body[requiredFields[i]]
        IN  v.t \in {"undefined", "null"} \/ (v.t = "string" /\ v.s = <<>>)

\* A temperature that is absent or a text with a character no number has.
HasNonNumericTemp(body) ==
    \E i \in 1..Len(tempFields) :
        LET v == body[tempFields[i]]
        IN  \/ v.t = "undefined"
            \/ v.t = "string" /\ \E k \in 1..Len(v.s) : v.s[k] \notin Digits \cup {" ", "-", "+"}

\* The bodies that lack a required string or carry a non-numeric temperature.
ClaimedInvalid == { body \in Bodies : LacksRequired(body) \/ HasNonNumericTemp(body) }

\* Those of them the handler's validation lets through to the try block.
ClaimedInvalidPassed == { body \in ClaimedInvalid : ValidationError(body) = Passed }

\* C8: the validation stops every request that lacks a required string or
\* carries a non-numeric temperature, and a request answered 400 made no
\* fs call and left the file as it was.
C8_ValidationBeforeIO ==
    [][ ResponseSent =>
          /\ ClaimedInvalidPassed = {}
          /\ Sent.status = 400 => (disk' = disk /\ fsCalls' = fsCalls) ]_vars

\* C8 witness: after one append was persisted a request was answered 400;
\* the file holds the one filament and one read and one write were made.
C8_Witness ==
    /\ Len(responses) = 2
    /\ responses[1].status = 201
    /\ responses[2].status = 400
    /\ Len(FilamentsOf(disk)) = 1
    /\ fsCalls = [read |-> 1, write |-> 1]

\* d is the document old with the record f added as the last filament.
IsOldPlus(d, old, f) ==
    /\ d # Torn
    /\ old # Torn
    /\ FilamentsOf(d) = Append(FilamentsOf(old), f)
    /\ d.materials = old.materials

\* C9: a request ends either in 201 with the document being the old one
\* plus the new record, or in an error with the document unchanged.
C9_TwoTerminalOutcomes ==
    [][ ResponseSent =>
          \/ Sent.status = 201 /\ IsOldPlus(disk', disk, Sent.filament)
          \/ Sent.status \in {400, 500} /\ disk' = disk ]_vars

\* A required string that is absent, empty or blank.
BlankRequired(body) ==
    \E i \in 1..Len(requiredFields) :
        LET v == body[requiredFields[i]]
        IN  v.t \in {"undefined", "null"} \/ (v.t = "string" /\ IsBlankText(v.s))

\* C10: a request in which brand, product_name or material is absent, empty
\* or only white space is answered 400 and nothing is appended.
C10_BlankRequiredRejected ==
    [][ \A body \in Bodies :
          (Post(body) /\ BlankRequired(body)) =>
              (Sent.status = 400 /\ disk' = disk) ]_vars

\* A temperature that is absent, null, the empty string or a text with a
\* character no number has.
NotANumber(v) ==
    \/ v.t \in {"undefined", "null"}
    \/ v.t = "string" /\ v.s = <<>>
    \/ v.t = "string" /\ \E k \in 1..Len(v.s) : v.s[k] \notin Digits \cup {" ", "-", "+"}

\* The bodies with three non-blank required strings and a temperature that
\* is not a number.
LacksTemperature ==
    { body \in Bodies :
        /\ ~BlankRequired(body)
        /\ \E i \in 1..Len(tempFields) : NotANumber(body[tempFields[i]]) }

\* C11: a request with valid required strings in which a temperature is
\* absent, null, the empty string or non-numeric text is answered 400 and
\* the file stays as it was.
C11_TemperaturesRequired ==
    [][ \A body \in LacksTemperature :
          Post(body) => (Sent.status = 400 /\ disk' = disk) ]_vars

\* The bodies that both lack a required string and carry a non-numeric
\* temperature.
BothInvalid == { body \in Bodies : LacksRequired(body) /\ HasNonNumericTemp(body) }

\* C12: a request that both lacks a required string and carries a
\* non-numeric temperature is answered 400 with the missing-required error,
\* never with the error of a temperature field.
C12_RequiredBeforeNumeric ==
    [][ \A body \in BothInvalid :
          Post(body) => (Sent.status = 400 /\ Sent.error = RequiredErrorText) ]_vars

\* C12 witness: the request without brand and with bed_temp_min "abc" was
\* answered with the missing-required error after an append was persisted.
C12_Witness ==
    /\ [BaseBody EXCEPT !.brand = Str(<<>>), !.bed_temp_min = Str(<<"a", "b", "c">>)]
            \in BothInvalid
    /\ Len(responses) = 2
    /\ responses[1].status = 201
    /\ responses[2] = [status |-> 400, error |-> RequiredErrorText]
    /\ Len(FilamentsOf(disk)) = 1

\* The fields an error message names.
CitedFields(error) ==
    CASE error = "brand, product_name and material are required" ->
            {"brand", "product_name", "material"}
      [] error = "Field nozzle_temp_min must be a number" -> {"nozzle_temp_min"}
      [] error = "Field nozzle_temp_max must be a number" -> {"nozzle_temp_max"}
      [] error = "Field bed_temp_min must be a number" -> {"bed_temp_min"}
      [] error = "Field bed_temp_max must be a number" -> {"bed_temp_max"}
      [] OTHER -> {}

\* A temperature that is absent or a text with a character no number has.
IsNonNumeric(v) ==
    \/ v.t = "undefined"
    \/ v.t = "string" /\ \E k \in 1..Len(v.s) : v.s[k] \notin Digits \cup {" ", "-", "+"}

\* The first non-numeric temperature field of a body, in the order
\* nozzle_temp_min, nozzle_temp_max, bed_temp_min, bed_temp_max.
FirstNonNumeric(body) ==
    LET order == <<"nozzle_temp_min", "nozzle_temp_max", "bed_temp_min", "bed_temp_max">>
        first == CHOOSE i \in 1..4 :
                     /\ IsNonNumeric(body[order[i]])
                     /\ \A j \in 1..(i - 1) : ~IsNonNumeric(body[order[j]])
    IN  order[first]

\* The bodies with the required strings present and a non-numeric temperature.
NonNumericOnly == { body \in Bodies : ~LacksRequired(body) /\ HasNonNumericTemp(body) }

\* Those of them the validation lets through, or answers with an error that
\* does not name exactly the first non-numeric field.
NonNumericMisnamed ==
    { body \in NonNumericOnly :
        \/ ValidationError(body) = Passed
        \/ CitedFields(ValidationError(body).error) # {FirstNonNumeric(body)} }

\* What the validation answers to the bodies it stops.
ValidationAnswers == { ValidationError(body) : body \in Bodies } \ {Passed}

\* C13: a request with the required strings present and one or more
\* non-numeric temperatures is answered 400 with an error that names exactly
\* one field, the first non-numeric one in the order nozzle_temp_min,
\* nozzle_temp_max, bed_temp_min, bed_temp_max.
C13_FirstNonNumericNamed ==
    [][ (ResponseSent /\ Sent.status = 400) =>
          /\ NonNumericMisnamed = {}
          /\ Sent \in ValidationAnswers
          /\ Cardinality(CitedFields(Sent.error)) = 1 \/ Sent.error = RequiredErrorText ]_vars

\* C13 witness: the request with nozzle_temp_max "abc" and bed_temp_min
\* absent is one of those bodies, and a request was answered with the error
\* that names nozzle_temp_max.
C13_Witness ==
    /\ [BaseBody EXCEPT !.nozzle_temp_max = Str(<<"a", "b", "c">>),
                        !.bed_temp_min = Undefined] \in NonNumericOnly
    /\ Len(responses) = 2
    /\ responses[1].status = 201
    /\ responses[2].status = 400
    /\ CitedFields(responses[2].error) = {"nozzle_temp_max"}

\* The required fields of a body that are absent, null or empty.
MissingFields(body) ==
    { f \in {"brand", "product_name", "material"} :
        body[f].t \in {"undefined", "null"} \/ (body[f].t = "string" /\ body[f].s = <<>>) }

\* The bodies that lack a required string.
LackingBodies == { body \in Bodies : MissingFields(body) # {} }

\* C14: a request that lacks required strings is answered 400 with an error
\* that cites exactly the fields that are missing.
C14_MissingFieldsCited ==
    [][ \A body \in LackingBodies :
          Post(body) =>
              (Sent.status = 400 /\ CitedFields(Sent.error) = MissingFields(body)) ]_vars

\* C15: a request answered 201 returns the record it created, and leaves the
\* document it found with exactly that record added as the last filament:
\* the filaments that were there keep their value and position, every other
\* key of the document (materials) keeps its value, and the last persisted
\* filament equals the returned one, id included.
C15_AppendedLast ==
    [][ Answered201 =>
          /\ Sent.success = TRUE
          /\ disk # Torn /\ disk' # Torn
          /\ DOMAIN disk' = DOMAIN disk \cup {"filaments"}
          /\ disk'.materials = disk.materials
          /\ LET old == FilamentsOf(disk)
                 new == FilamentsOf(disk')
             IN  /\ Len(new) = Len(old) + 1
                 /\ SubSeq(new, 1, Len(old)) = old
                 /\ new[Len(new)] = Sent.filament
                 /\ new[Len(new)].id = Sent.filament.id ]_vars

\* C15 witness: the file started with the filaments 3 and 1, and a request
\* was answered 201 with the record that is now the third and last one.
C15_Witness ==
    /\ Len(responses) = 1
    /\ responses[1].status = 201
    /\ disk # Torn
    /\ Len(FilamentsOf(disk)) = 3
    /\ FilamentsOf(disk)[1].id = 3
    /\ FilamentsOf(disk)[2].id = 1
    /\ FilamentsOf(disk)[3] = responses[1].filament
    /\ disk.materials = <<PLA>>

\* The stored value of an optional field: the default when the field was
\* omitted, the supplied value otherwise.
OptionalKept(supplied, stored, default) ==
    IF supplied.t = "undefined" THEN stored = default ELSE stored = supplied

\* The stored temperature is a number equal to the supplied value: to the
\* supplied number, or to the integer a supplied numeric text denotes.
TemperatureKept(supplied, stored) ==
    /\ stored.t = "number"
    /\ \/ supplied.t = "number" /\ stored.n = supplied.n
       \/ /\ supplied.t = "string"
          /\ ~IsNonNumeric(supplied)
          /\ BeginsWithInteger(supplied.s)
          /\ stored.n = LeadingIntegerOf(supplied.s)

\* C16: in the record of a request answered 201, color and special_type are
\* null and notes is the empty string when the field was omitted and carry
\* the supplied value otherwise, and the four temperatures are numbers equal
\* to the supplied values.
C16_DefaultsAndValues ==
    [][ \A body \in Bodies :
          PostCreated(body) =>
              /\ OptionalKept(body.color, Sent.filament.color, JsNull)
              /\ OptionalKept(body.special_type, Sent.filament.special_type, JsNull)
              /\ OptionalKept(body.notes, Sent.filament.notes, Str(<<>>))
              /\ \A i \in 1..Len(tempFields) :
                    TemperatureKept(body[tempFields[i]], Sent.filament[tempFields[i]]) ]_vars

(***************************************************************************)
(* What the spec says of the add-filament page.                            *)
(***************************************************************************)
\* The submissions that fail: the fetch rejects or the response is not ok.
FailedOutcomes == { o \in SaveOutcomes : o.kind = "rejected" \/ ~o.ok }

\* The responses that carry an error message of the server.
WithServerMessage ==
    { o \in SaveOutcomes :
        o.kind = "response" /\ ~o.ok /\ o.parses /\ o.error \notin {Absent, ""} }

\* C17: a submission that fails (a response that is not ok, or a network
\* error) leaves the page where it is and every form field as it was; the
\* page goes to /filament only in a step that handles an ok response; and
\* the message of a failed response that carries one is the one alerted.
C17_FailedSubmissionKeepsForm ==
    [][ /\ \A o \in FailedOutcomes :
              SaveSettles(o) => (location' = location /\ addForm' = addForm)
        /\ \A o \in WithServerMessage : SaveSettles(o) => alertText' = o.error
        /\ location' # location =>
              /\ location' = FinderPath
              /\ \E o \in SaveOutcomes \ FailedOutcomes : SaveSettles(o) ]_vars

\* C17 witness: with the form filled in, a save was answered with the
\* server's storage error: that text is the alert, nothing is pending, the
\* page is still the add page and the form is still filled in.
C17_Witness ==
    /\ alertText = StorageErrorText
    /\ savePending = 0
    /\ location = AddPath
    /\ ~SaveDataIncomplete(getDataForSave(addForm))
    /\ ~SaveDataNotNumeric(getDataForSave(addForm))

(***************************************************************************)
(* What the spec says of the material info panel.                          *)
(***************************************************************************)
\* What the panel is to show for a selection among the loaded materials:
\* the prompt for the empty selection, the material of exactly that name,
\* or the not-found indicator.
PanelFor(ms, selection) ==
    IF selection = "" THEN [shows |-> "prompt", material |-> Null]
    ELSE IF \E i \in 1..Len(ms) : ms[i].name = selection
         THEN [shows |-> "summary", material |-> selection]
         ELSE [shows |-> "notfound", material |-> Null]

\* The lookups, among them names no material has and a name in another
\* case, for which updateMaterialInfo writes something else.
PanelMismatches ==
    { q \in (SampleMaterials \cup {<<>>}) \X {"", "PLA", "PETG", "pla", "ABS"} :
        updateMaterialInfo(q[1], q[2]) # PanelFor(q[1], q[2]) }

\* C18: once the script has written the panel, the panel shows what the
\* selected material value alone determines (the material of exactly that
\* name, or the not-found indicator when no loaded material has it), and a
\* step that changes the brand, color, nozzle or bed value and leaves the
\* material selection and the loaded materials alone leaves the panel as it
\* was. The panel's content in the page's markup, before the script first
\* writes it, is not part of the script.
C18_InfoPanelFollowsMaterial ==
    [][ /\ PanelMismatches = {}
        /\ materialInfoBox'.shows # "markup" =>
              materialInfoBox' = PanelFor(materials', materialSelect'.value)
        /\ ( /\ materialInfoBox.shows # "markup"
             /\ materialSelect'.value = materialSelect.value
             /\ materials' = materials
             /\ \/ brandSelect'.value # brandSelect.value
                \/ colorSelect' # colorSelect
                \/ nozzleInput' # nozzleInput
                \/ bedInput' # bedInput ) =>
              materialInfoBox' = materialInfoBox ]_vars

\* C18 witness: PETG, the second loaded material, is selected and the panel
\* shows PETG, with a color and a nozzle temperature set as well.
C18_Witness ==
    /\ fetchState = "loaded"
    /\ materialSelect.value = "PETG"
    /\ materialInfoBox = [shows |-> "summary", material |-> "PETG"]
    /\ colorSelect = "red"
    /\ nozzleInput # <<>>

(***************************************************************************)
(* What the doc comments say of handleErrors.                              *)
(***************************************************************************)
\* C19: no error a wrapped controller raises, thrown or as a rejected
\* promise, leaves the wrapper as an exception, and each is passed to next
\* by the wrapper (a rejection at the latest when its reaction has run, which
\* is still queued in the state in which next was not called yet).
C19_WrapperCallsNext ==
    \A i \in 1..Len(wrapperCalls) :
        LET call == wrapperCalls[i]
        IN  /\ call.thrown = NoError
            /\ call.error # NoError =>
                  (call.next = call.error \/ call.promise = "rejected")

(***************************************************************************)
(* What the doc comments say of Hangman.                                   *)
(***************************************************************************)
\* C20: over any letter clicks and new games wrongGuesses stays within
\* 0..maxWrongGuesses (10), and the game-over message is written exactly in
\* the step in which wrongGuesses becomes 10 with the word not fully
\* revealed.
C20_AtMostTenWrongGuesses ==
    [][ /\ wrongGuesses \in 0..10
        /\ wrongGuesses' \in 0..10
        /\ (messageSpan'.kind = "lost" /\ messageSpan.kind # "lost")
              <=> (wrongGuesses' = 10 /\ wrongGuesses # 10 /\ revealed' # secretWord') ]_vars

\* C20 witness: the tenth wrong guess was made with the word not revealed:
\* the game-over message names the word and the last stage is drawn.
C20_Witness ==
    /\ wrongGuesses = 10
    /\ revealed # secretWord
    /\ messageSpan = [kind |-> "lost", word |-> <<"N", "O", "Z", "Z", "L", "E">>]
    /\ figurePre = 10
    /\ keyboard = AllKeys

(***************************************************************************)
(* What the doc comments say of the header.                                *)
(***************************************************************************)
\* C21: from the closed menu on, over any clicks on the toggle, clicks in the
\* navigation list and key presses, aria-label is "Close menu" exactly when
\* aria-expanded is "true" and "Open menu" otherwise, and a click on a link
\* of the list or a press of Escape leaves aria-expanded "false".
C21_AriaInSync ==
    /\ [](/\ navToggle.ariaExpanded \in {"true", "false"}
          /\ navToggle.ariaLabel =
                 IF navToggle.ariaExpanded = "true" THEN "Close menu" ELSE "Open menu")
    /\ [][(NavListClick(TRUE) \/ KeyDown("Escape"))
             => navToggle'.ariaExpanded = "false"]_vars

\* C21 witness: Escape was pressed with the menu open: the menu is closed
\* again and the toggle, focused by that listener only, has the focus.
C21_Witness ==
    /\ navToggle = [ariaExpanded |-> "false", ariaLabel |-> "Open menu"]
    /\ activeElement = "nav-toggle"

\* A text without a character other than white space.
Blank(text) == \A i \in 1..Len(text) : text[i] = " "

\* C22: on a submit of the contact form window.location.href changes (to the
\* mailto: URL) only when "how to contact" and "message" are both non-empty
\* after trimming; otherwise href stays, and an error text and the has-error
\* mark are set for exactly the required fields that are empty.
C22_RequiredFields ==
    [][ContactFormSubmit =>
          LET noContact == Blank(contactInputs.contact)
              noMessage == Blank(contactInputs.message)
          IN  /\ href' # href => ~noContact /\ ~noMessage
              /\ (noContact \/ noMessage) =>
                    /\ href' = href
                    /\ contactErrors'.errorContact # "" <=> noContact
                    /\ contactErrors'.errorMessage # "" <=> noMessage
                    /\ "contact" \in contactErrors'.hasError <=> noContact
                    /\ "message" \in contactErrors'.hasError <=> noMessage
                    /\ contactErrors'.mailtoError = ""]_vars

\* C22 witness: a mail was opened by an earlier submit, and the last submit,
\* with a blank "how to contact" and a message, shows the error of that
\* field only.
C22_Witness ==
    /\ href # [page |-> "/"]
    /\ contactInputs.contact = <<" ">>
    /\ contactInputs.message = <<"H", "i", " ">>
    /\ contactErrors.errorContact = "Please tell me how I can contact you."
    /\ contactErrors.errorMessage = ""
    /\ contactErrors.hasError = {"contact"}

(***************************************************************************)
(* What the code of Hangman implies.                                       *)
(***************************************************************************)
\* The game is over: no letter of the word is hidden or no attempt is left.
GameIsOver ==
    (\A i \in 1..Len(revealed) : revealed[i] # "_") \/ wrongGuesses >= 10

\* C23: once the game is over (word fully revealed or wrongGuesses = 10) a
\* click on a letter changes none of secretWord, revealed, wrongGuesses and
\* guessedLetters; only startNewGame changes them and leaves that state.
C23_GameOverFrozen ==
    [][GameIsOver =>
          \/ UNCHANGED <<secretWord, revealed, wrongGuesses, guessedLetters>>
          \/ StartNewGame]_vars

\* C23 witness: a game was won after wrong guesses: the word is revealed in
\* full and every key is disabled.
C23_Witness ==
    /\ secretWord = <<"c", "a", "t">>
    /\ revealed = secretWord
    /\ wrongGuesses \in 1..9
    /\ messageSpan = [kind |-> "won"]
    /\ keyboard = AllKeys

\* The letters tried in the game.
Tried == { guessedLetters[j] : j \in 1..Len(guessedLetters) }

\* C24: handleGuess called with a letter that is in guessedLetters leaves
\* wrongGuesses, revealed and guessedLetters as they are, so wrongGuesses
\* never exceeds the number of tried letters that are missing from the word.
C24_RepeatedGuessIgnored ==
    /\ [][\A letter \in Tried :
             handleGuess(letter) => UNCHANGED <<wrongGuesses, revealed, guessedLetters>>]_vars
    /\ [](wrongGuesses <=
             Cardinality({ letter \in Tried :
                             \A i \in 1..Len(secretWord) : secretWord[i] # letter }))

\* C24 witness: "b", missing from the word, was guessed a second time: the
\* message says it was tried already and it has cost one attempt.
C24_Witness ==
    /\ messageSpan = [kind |-> "tried", letter |-> "B"]
    /\ guessedLetters = <<"b">>
    /\ wrongGuesses = 1

(***************************************************************************)
(* What the comments say of the hover image.                               *)
(***************************************************************************)
\* C25: while the pointer stays over the hover box, from its mouseenter to
\* its next mouseleave, no timer removes "is-visible" from the box, whatever
\* trigger events and timer expiries came before the mouseenter.
C25_VisibleWhileHovered ==
    [][(pointer = "box" /\ pointer' = "box" /\ hoverBox.visible) => hoverBox'.visible]_vars

(***************************************************************************)
(* What the code of the Filament Finder implies for events that pass the   *)
(* fetch.                                                                  *)
(***************************************************************************)
\* C26: at every moment after the catalog has loaded, the rendered list is
\* the loaded filaments filtered by the current values of the five filter
\* controls (temperatures empty or integers), whatever the user entered
\* before the fetch completed.
C26_ResultsFollowControls ==
    (fetchState = "loaded" /\ WellTyped(nozzleInput) /\ WellTyped(bedInput)) =>
        IsSubsequenceAt(resultsContainer, filaments,
            { i \in 1..Len(filaments) :
                Satisfies(filaments[i], materialSelect.value, brandSelect.value,
                          colorSelect, nozzleInput, bedInput) })

\* C27: in every reachable state of the page revealed has the length of
\* secretWord, shows at each position the letter of secretWord when that
\* letter is in guessedLetters and "_" otherwise, and wrongGuesses is the
\* number of guessed letters that do not occur in secretWord.
C27_DisplayedStateIsFunction ==
    /\ Len(revealed) = Len(secretWord)
    /\ \A i \in 1..Len(secretWord) :
           revealed[i] = IF secretWord[i] \in Tried THEN secretWord[i] ELSE "_"
    /\ wrongGuesses =
           Cardinality(Tried \ { secretWord[i] : i \in 1..Len(secretWord) })

\* C27 witness: in a game for "cat" the letters "a" and "b" were guessed:
\* one letter is shown and one attempt is used.
C27_Witness ==
    /\ secretWord = <<"c", "a", "t">>
    /\ guessedLetters = <<"a", "b">>
    /\ revealed = <<"_", "a", "_">>
    /\ wrongGuesses = 1
====
